---- MODULE Spec2Model ----
(***************************************************************************)
(* pomocop: the phase scheduler of src/pomo/session.rs (Session, Phase,    *)
(* SessionConfig) and its driver in src/commands/pomo.rs (run_session).    *)
(*                                                                         *)
(* Time is a discrete clock `now`.  One tick is the 100 ms delay of a      *)
(* waker thread (WakeTicks); a minute is TicksPerMinute ticks.             *)
(***************************************************************************)
EXTENDS Integers, Sequences, FiniteSets, TLC

\* ------------------------------------------------------------------ bounds
\* Phases (Phase futures) the model follows.
MaxTimers == 2
\* Waker threads that may exist at once.
MaxThreads == 2
\* The last instant of the clock.
MaxTime == 2
\* Clock ticks in one minute.
TicksPerMinute == 2

\* The width of usize, in bits: usize arithmetic wraps at 2^UsizeBits where
\* overflow is not checked.
UsizeBits == 4

\* The delay of a waker thread, in ticks (Duration::milliseconds(100)).
WakeTicks == 1

TimerIds == 1..MaxTimers
ThreadIds == 1..MaxThreads
Users == {"u1"}
\* The wakers (tasks) a Phase can be polled with.
Wakers == {"a", "b"}
SessIds == {1, 2}
\* The channels of the chat platform: a Session is registered under one.
Channels == {"c1", "c2"}
\* The tasks that run a start command (and then run_session), and the task
\* slot in which the other commands run, one at a time.
Runs == {"r1", "r2"}
Cmds == {"k1"}
\* A start command and the other commands given in a second channel.
OtherRuns == {"r3"}
OtherCmds == {"k2"}
OtherTasks == OtherRuns \cup OtherCmds
Tasks == Runs \cup Cmds \cup OtherTasks

\* Option<T> is a sequence of length at most one.
None == << >>
Some(x) == << x >>
IsSome(o) == Len(o) = 1
Unwrap(o) == o[1]

\* ------------------------------------------------------- SessionConfig
\* The configurations followed: the scenario config(1,1,1,1), one with a
\* zero-length work phase and two work phases per long break, and one with
\* interval = 0 (the builder accepts every usize).
Configs ==
    { [work |-> 1, short |-> 1, long |-> 1, interval |-> 1],
      [work |-> 0, short |-> 1, long |-> 1, interval |-> 2],
      [work |-> 1, short |-> 1, long |-> 1, interval |-> 0] }

Work(n) == [tag |-> "Work", len |-> n]
Short(n) == [tag |-> "Short", len |-> n]
Long(n) == [tag |-> "Long", len |-> n]
NoType == [tag |-> "none", len |-> 0]

\* PhaseType::length
length(pt) == pt.len

UsizeLimit == 2 ^ UsizeBits

\* self.interval * 2 in usize: the product wraps when the build does not
\* check overflow.
Period(cfg) == (cfg.interval * 2) % UsizeLimit

\* self.interval * 2 does not fit usize: a build that checks overflow
\* panics there.
PeriodOverflows(cfg) == cfg.interval * 2 >= UsizeLimit

\* phase_at panics (remainder with a divisor of zero) on an odd index when
\* interval * 2 = 0.
PhaseAtPanics(cfg, phase_index) ==
    phase_index % 2 # 0 /\ Period(cfg) = 0

\* How a call of phase_at can end, "Ok" or "panic": on an odd index the
\* build with overflow checks panics when interval * 2 overflows, and every
\* build panics when the divisor is zero.
PhaseAtOutcomes(cfg, phase_index) ==
    IF phase_index % 2 = 0
    THEN {"Ok"}
    ELSE (IF PeriodOverflows(cfg) THEN {"panic"} ELSE {})
         \cup (IF PhaseAtPanics(cfg, phase_index) THEN {"panic"} ELSE {"Ok"})

\* Mutant: the parity test is inverted.
PhaseAtWorkOnOdd(cfg, phase_index) ==
    IF phase_index % 2 = 1
    THEN Work(cfg.work)
    ELSE Short(cfg.short)

\* Mutant: the long break comes one break late (period 2 * (interval + 1)).
PhaseAtLongOneLate(cfg, phase_index) ==
    IF phase_index % 2 = 0
    THEN Work(cfg.work)
    ELSE IF phase_index % (Period(cfg) + 2) = Period(cfg) + 1
         THEN Long(cfg.long)
         ELSE Short(cfg.short)

\* SessionConfig::phase_at
phase_at(cfg, phase_index) ==
    IF phase_index % 2 = 0
    THEN Work(cfg.work)
    ELSE IF phase_index % Period(cfg) = Period(cfg) - 1
         THEN Long(cfg.long)
         ELSE Short(cfg.short)

\* ------------------------------------------------------------- state
VARIABLES
    now,     \* the clock (Utc::now), in ticks
    sess,    \* the Session objects
    timer,   \* the Phase futures, one per call of advance
    chan,    \* the oneshot channel of PhaseMessage of each Phase
    thr,     \* the waker threads
    ret,     \* what the Session call made in the last step returned (NoRet
             \* after a step that is no Session call)
    sessions,\* the registry: the Session registered under each channel
    lock,    \* the task that holds the registry's mutex, or "none"
    task     \* the command tasks: where each is in its code

vars == << now, sess, timer, chan, thr, ret, sessions, lock, task >>
\* What the commands add to the Session and its Phases.
cmdvars == << sessions, lock, task >>

NoSess == [st |-> "none", config |-> [work |-> 0, short |-> 0, long |-> 0, interval |-> 0],
           next_index |-> 0, current_phase |-> None, members |-> {}]

\* Session::from_config
from_config(cfg) ==
    [st |-> "live", config |-> cfg, next_index |-> 0,
     current_phase |-> None, members |-> {}]

NoTimer == [st |-> "none", session |-> 0, index |-> 0, end |-> 0,
            phase_type |-> NoType, waker |-> None, polled |-> FALSE,
            outcomes |-> << >>, lastWaker |-> "none", notified |-> FALSE]

\* val: what the receiver finds; tx: the sender (held, sent, dropped).  Kept
\* for the record: sent, the message delivered; early, whether it was sent
\* before the deadline; nsent, the sends attempted.
NoChan == [val |-> "Empty", tx |-> "none", sent |-> "none", early |-> FALSE, nsent |-> 0]

NoThread == [pc |-> "none", timer |-> 0, when |-> 0, cell |-> "none"]

NoRet == [op |-> "none", s |-> 0, res |-> "-", kind |-> NoType,
          elapsed |-> 0, remaining |-> 0, next |-> NoType, long_at |-> 0,
          arg |-> 0, val |-> 0]

Ret(op, s, res, kind) ==
    [NoRet EXCEPT !.op = op, !.s = s, !.res = res, !.kind = kind]

\* The receiver of a Phase's channel exists while the Phase does.
RxAlive(t) == timer[t].st \in {"pending", "ready"}

\* ------------------------------------------- tokio::sync::oneshot
\* Receiver::try_recv on the channel of Phase t: a value that was sent, else
\* Closed when the sender is gone (dropped, or its value already taken), else
\* Empty.
try_recv(t) ==
    IF chan[t].val \in {"Skip", "Stop"} THEN chan[t].val
    ELSE IF chan[t].tx # "held" THEN "Closed"
    ELSE "Empty"

\* Sender::send succeeds exactly when the receiver still exists.
SendOk(t) == RxAlive(t)

\* The channel of Phase t after its sender has sent msg (the sender is
\* consumed either way).
AfterSend(c, t, msg) ==
    [c EXCEPT ![t] = IF SendOk(t)
                     THEN [@ EXCEPT !.val = msg, !.tx = "sent", !.sent = msg,
                                    !.early = (now < timer[t].end),
                                    !.nsent = @ + 1]
                     ELSE [@ EXCEPT !.tx = "dropped", !.nsent = @ + 1]]

\* Handle h holds the sender of Phase t's channel.
HeldBy(h, t) == IsSome(h) /\ Unwrap(h).send = t

\* The channels after the sender that handle h holds (if any) is dropped.
AfterDropHandle(c, h) ==
    IF IsSome(h) /\ c[Unwrap(h).send].tx = "held"
    THEN [c EXCEPT ![Unwrap(h).send].tx = "dropped"]
    ELSE c

\* --------------------------------------------------------- Session
Live(s) == sess[s].st = "live"

FreeTimers == { t \in TimerIds : timer[t].st = "none" }
NewTimer == CHOOSE t \in FreeTimers : \A u \in FreeTimers : t <= u

\* Mutant: the index moves on by two.
NextIndexTwice(i) == i + 2

\* Mutant: the index stays where it is.
NextIndexKept(i) == i

\* self.next_index += 1
NextIndexAfter(i) == i + 1

\* start + Duration::minutes(phase_type.length())
EndOf(start, pt) == start + length(pt) * TicksPerMinute

\* Mutant: the handle is read and left in place.
Kept(h) == h

\* self.current_phase.take() leaves None behind.
Taken(h) == None

\* Mutant: a call with no handle reports success.
NotActiveAsOk == "Ok"

\* Err(SessionError::NotActive)
NotActive == "NotActive"

\* Mutant: advance keeps the handle of a phase that is still there.
KeepRunning(old, new) == IF IsSome(old) THEN old ELSE Some(new)

\* self.current_phase = Some(PhaseHandle { .. }) replaces the handle that was
\* there.
ReplaceHandle(old, new) == Some(new)

\* Session::add_member
Bool(b) == IF b THEN "true" ELSE "false"

\* Mutant: insert reports every user as newly added.
InsertedAlways(members, u) == TRUE

\* HashSet::insert returns whether the value was newly inserted.
Inserted(members, u) == u \notin members

\* HashSet::remove returns whether the value was present.
Removed(members, u) == u \in members

add_member(s, u) ==
    /\ Live(s)
    /\ sess' = [sess EXCEPT ![s].members = @ \cup {u}]
    /\ ret' = Ret("add_member", s, Bool(Inserted(sess[s].members, u)), NoType)
    /\ UNCHANGED << now, timer, chan, thr >>

\* Session::remove_member
remove_member(s, u) ==
    /\ Live(s)
    /\ sess' = [sess EXCEPT ![s].members = @ \ {u}]
    /\ ret' = Ret("remove_member", s, Bool(Removed(sess[s].members, u)), NoType)
    /\ UNCHANGED << now, timer, chan, thr >>

\* Session::advance.  The call panics in phase_at before it changes anything
\* when interval = 0 and next_index is odd.
advance(s) ==
    /\ Live(s)
    /\ FreeTimers # {}
    /\ \E o \in PhaseAtOutcomes(sess[s].config, sess[s].next_index) :
       IF o = "panic"
       THEN /\ ret' = Ret("advance", s, "panic", NoType)
            /\ UNCHANGED << now, sess, timer, chan, thr >>
       ELSE LET t == NewTimer
                phase_type == phase_at(sess[s].config, sess[s].next_index)
                start == now
            IN /\ sess' = [sess EXCEPT
                     ![s].next_index = NextIndexAfter(@),
                     ![s].current_phase =
                         ReplaceHandle(@, [started |-> start, phase_type |-> phase_type,
                                           send |-> t])]
               /\ chan' = [c \in TimerIds |->
                     IF c = t
                     THEN [NoChan EXCEPT !.tx = IF HeldBy(sess'[s].current_phase, c)
                                                THEN "held" ELSE "dropped"]
                     ELSE IF /\ HeldBy(sess[s].current_phase, c)
                             /\ ~HeldBy(sess'[s].current_phase, c)
                          THEN AfterDropHandle(chan, sess[s].current_phase)[c]
                          ELSE chan[c]]
               /\ timer' = [timer EXCEPT ![t] =
                     [NoTimer EXCEPT !.st = "pending", !.session = s,
                                     !.index = sess[s].next_index,
                                     !.end = EndOf(start, phase_type),
                                     !.phase_type = phase_type]]
               /\ ret' = Ret("advance", s, "Ok", phase_type)
               /\ UNCHANGED << now, thr >>

\* Mutant: skip surfaces a failed send.
SkipResultSurfaced(sent) == IF sent THEN "Ok" ELSE "NotActive"

\* skip: send(..).tap_err(..).ok() discards the result of the send.
SkipResult(sent) == "Ok"

\* Mutant: stop discards the result of the send.
StopResultTolerant(sent) == "Ok"

\* stop: send(..).map_err(|_| NotActive) is the result of the call.
StopResult(sent) == IF sent THEN "Ok" ELSE NotActive

\* Session::skip: a failed send is tolerated.
skip(s) ==
    /\ Live(s)
    /\ IF IsSome(sess[s].current_phase)
       THEN LET phase == Unwrap(sess[s].current_phase)
            IN /\ sess' = [sess EXCEPT ![s].current_phase = Taken(@)]
               /\ chan' = AfterSend(chan, phase.send, "Skip")
               /\ ret' = Ret("skip", s, SkipResult(SendOk(phase.send)), phase.phase_type)
       ELSE /\ ret' = Ret("skip", s, NotActive, NoType)
            /\ UNCHANGED << sess, chan >>
    /\ UNCHANGED << now, timer, thr >>

\* Session::stop: a failed send is NotActive.
stop(s) ==
    /\ Live(s)
    /\ IF IsSome(sess[s].current_phase)
       THEN LET phase == Unwrap(sess[s].current_phase)
            IN /\ sess' = [sess EXCEPT ![s].current_phase = Taken(@)]
               /\ chan' = AfterSend(chan, phase.send, "Stop")
               /\ ret' = Ret("stop", s, StopResult(SendOk(phase.send)), NoType)
       ELSE /\ ret' = Ret("stop", s, NotActive, NoType)
            /\ UNCHANGED << sess, chan >>
    /\ UNCHANGED << now, timer, thr >>

\* The Session is dropped: so is the sender its handle holds.
drop_session(s) ==
    /\ Live(s)
    /\ sess' = [sess EXCEPT ![s].st = "dropped", ![s].current_phase = None]
    /\ chan' = AfterDropHandle(chan, sess[s].current_phase)
    /\ ret' = NoRet
    /\ UNCHANGED << now, timer, thr >>

\* ------------------------------------------------------------ clock
Tick ==
    /\ now < MaxTime
    /\ now' = now + 1
    /\ ret' = NoRet
    /\ UNCHANGED << sess, timer, chan, thr >>

\* SessionConfig::until_long: the minutes from the start of phase `current`
\* to the start of the next long break.  Evaluated for interval >= 1 only
\* (it panics in phase_at otherwise).
\* Mutant: the loop also counts the long break it stops at.
RECURSIVE UntilLongInclusive(_, _)
UntilLongInclusive(cfg, current) ==
    IF phase_at(cfg, current).tag = "Long"
    THEN length(phase_at(cfg, current))
    ELSE (length(phase_at(cfg, current))
            + UntilLongInclusive(cfg, (current + 1) % UsizeLimit)) % UsizeLimit

\* minutes and current are usize: `minutes += length` and `current += 1`
\* wrap in a build without overflow checks, which is the value computed here.
RECURSIVE until_long(_, _)
until_long(cfg, current) ==
    IF phase_at(cfg, current).tag = "Long"
    THEN 0
    ELSE (length(phase_at(cfg, current))
            + until_long(cfg, (current + 1) % UsizeLimit)) % UsizeLimit

\* One of the additions of the loop overflows usize, minutes being the sum
\* so far (evaluated where interval * 2 fits and is not 0).
RECURSIVE UntilLongOverflows(_, _, _)
UntilLongOverflows(cfg, current, minutes) ==
    IF phase_at(cfg, current).tag = "Long"
    THEN FALSE
    ELSE \/ minutes + length(phase_at(cfg, current)) >= UsizeLimit
         \/ current + 1 >= UsizeLimit
         \/ UntilLongOverflows(cfg, current + 1,
                                minutes + length(phase_at(cfg, current)))

\* How a call of until_long can end.  The loop always reaches an odd index:
\* it panics there when interval * 2 is 0; where an addition or the product
\* overflows, a build with overflow checks panics and one without returns
\* the wrapped value.
UntilLongOutcomes(cfg, current) ==
    IF Period(cfg) = 0
    THEN {"panic"}
    ELSE {"Ok"} \cup (IF PeriodOverflows(cfg) \/ UntilLongOverflows(cfg, current, 0)
                      THEN {"panic"} ELSE {})

\* The instants at which one call of status can read the clock: the clock
\* may tick once while the call runs.
ClockReads == { i \in now..(now + 1) : i <= MaxTime }

\* How a call of status on a running Session can end: it evaluates phase_at
\* on next_index and then until_long from there, which evaluates phase_at on
\* next_index again.
StatusOutcomes(cfg, next_index) == UntilLongOutcomes(cfg, next_index)

\* Mutant: status empties the member set.
StatusDropsMembers(sn) == [sn EXCEPT !.members = {}]

\* Mutant: status takes the handle it reads.
StatusTakesHandle(sn) == [sn EXCEPT !.current_phase = None]

\* status borrows the Session shared (&self): the Session after the call.
AfterStatus(sn) == sn

\* PhaseHandle::elapsed with the clock read at instant t.
elapsed(phase, t) == t - phase.started

\* Mutant: remaining adds the elapsed time to the length.
RemainingSignError(phase, t) ==
    length(phase.phase_type) * TicksPerMinute + elapsed(phase, t)

\* PhaseHandle::remaining with the clock read at instant t.
remaining(phase, t) ==
    length(phase.phase_type) * TicksPerMinute - elapsed(phase, t)

\* Mutant: status reports the type of the phase that comes next.
RunningTypeNext(phase, next_type) == next_type

\* Running { phase_type: phase.phase_type, .. }
RunningType(phase, next_type) == phase.phase_type

\* Session::status.  elapsed() reads the clock, remaining() reads it again,
\* and long_at reads it twice more.  With a handle present the call panics
\* (in phase_at or until_long) when phase_at does on an odd index.
status(s) ==
    /\ Live(s)
    /\ IF IsSome(sess[s].current_phase)
       THEN \E o \in StatusOutcomes(sess[s].config, sess[s].next_index) :
            IF o = "panic"
            THEN /\ ret' = Ret("status", s, "panic", NoType)
                 /\ UNCHANGED now
            ELSE \E t1 \in ClockReads : \E t2 \in ClockReads :
                 \E t3 \in ClockReads : \E t4 \in ClockReads :
                   LET phase == Unwrap(sess[s].current_phase)
                   IN /\ t1 <= t2 /\ t2 <= t3 /\ t3 <= t4
                      /\ ret' = [op |-> "status", s |-> s, res |-> "Running",
                                 kind |-> RunningType(phase,
                                     phase_at(sess[s].config, sess[s].next_index)),
                                 elapsed |-> elapsed(phase, t1),
                                 remaining |-> remaining(phase, t2),
                                 next |-> phase_at(sess[s].config, sess[s].next_index),
                                 long_at |-> t3 + remaining(phase, t4)
                                     + until_long(sess[s].config, sess[s].next_index)
                                         * TicksPerMinute,
                                 arg |-> 0, val |-> 0]
                      /\ now' = t4
       ELSE /\ ret' = Ret("status", s, "NoSession", NoType)
            /\ UNCHANGED now
    /\ sess' = [sess EXCEPT ![s] = AfterStatus(@)]
    /\ UNCHANGED << timer, chan, thr >>

\* ------------------------------------------------------------ Phase
\* Mutant: a Phase that returned Ready is polled again.
PollableAfterReady(t) == timer[t].st \in {"pending", "ready"}

\* A Phase is polled while it is awaited: `phase.await` consumes the future
\* with its first Ready.
Pollable(t) == timer[t].st = "pending"

\* waker_recv.try_recv() is Ok(()) once waker thread k has sent.
WakerFinished(k) == thr[k].pc \in {"wake", "done"}

\* The thread slots a poll of Phase t may take: finished threads to which no
\* other Phase still holds the receiver.
FreeThreads(t) ==
    { k \in ThreadIds :
        /\ thr[k].pc \in {"none", "done"}
        /\ \A u \in TimerIds \ {t} : ~(RxAlive(u) /\ timer[u].waker = Some(k)) }
NewThread(t) == CHOOSE k \in FreeThreads(t) : \A j \in FreeThreads(t) : k <= j

\* Mutant: the deadline is looked at before the channel.
PollResultDeadlineFirst(t) ==
    LET m == try_recv(t)
    IN IF now >= timer[t].end THEN "Completed"
       ELSE IF m = "Skip" THEN "Skipped"
       ELSE IF m = "Stop" THEN "Stopped"
       ELSE IF m = "Closed" THEN "Failed"
       ELSE "Pending"

\* Mutant: a closed channel is taken for an empty one.
PollResultClosedAsEmpty(t) ==
    LET m == try_recv(t)
    IN IF m = "Skip" THEN "Skipped"
       ELSE IF m = "Stop" THEN "Stopped"
       ELSE IF now >= timer[t].end THEN "Completed"
       ELSE "Pending"

\* Mutant: the phase is finished only after its deadline (now > end).
PollResultStrict(t) ==
    LET m == try_recv(t)
    IN IF m = "Skip" THEN "Skipped"
       ELSE IF m = "Stop" THEN "Stopped"
       ELSE IF m = "Closed" THEN "Failed"
       ELSE IF now > timer[t].end THEN "Completed"
       ELSE "Pending"

\* The match on self.recv.try_recv() that ends poll.
PollResult(t) ==
    LET m == try_recv(t)
    IN IF m = "Skip" THEN "Skipped"
       ELSE IF m = "Stop" THEN "Stopped"
       ELSE IF m = "Closed" THEN "Failed"
       ELSE IF now >= timer[t].end THEN "Completed"
       ELSE "Pending"

\* Mutant: the waker thread keeps the waker it was spawned with.
CellKept(old, w) == old

\* The waker a live waker thread holds after a poll with ctx waker w.
CellAfterPoll(old, w) == w

\* Phase::poll with the waker w of the polling task.
poll(t, w) ==
    LET old == timer[t].waker
        finished == IsSome(old) /\ WakerFinished(Unwrap(old))
        spawn == ~IsSome(old) \/ finished
        k == NewThread(t)
        res == PollResult(t)
        thr1 == IF IsSome(old) /\ ~finished
                THEN [thr EXCEPT ![Unwrap(old)].cell = CellAfterPoll(@, w)]
                ELSE thr
    IN /\ spawn => FreeThreads(t) # {}
       /\ thr' = IF spawn
                 THEN [thr1 EXCEPT ![k] = [pc |-> "sleep", timer |-> t,
                                           when |-> now + WakeTicks, cell |-> w]]
                 ELSE thr1
       /\ chan' = IF try_recv(t) \in {"Skip", "Stop"}
                  THEN [chan EXCEPT ![t].val = "Taken"]
                  ELSE chan
       /\ timer' = [timer EXCEPT ![t] =
             [@ EXCEPT !.waker = IF spawn THEN Some(k) ELSE @,
                       !.polled = TRUE,
                       !.lastWaker = w,
                       !.notified = FALSE,
                       !.st = IF res = "Pending" THEN "pending" ELSE "ready",
                       !.outcomes = IF res = "Pending" THEN @
                                    ELSE Append(@, [res |-> res,
                                                    kind |-> timer[t].phase_type,
                                                    first |-> ~timer[t].polled])]]
       /\ ret' = NoRet
       /\ UNCHANGED << now, sess >>

\* The task awaiting Phase t polls it: the first time, or after a wake.
WokenPoll(t, w) ==
    /\ Pollable(t)
    /\ ~timer[t].polled \/ timer[t].notified
    /\ poll(t, w)

\* A poll that no wake asked for.
SpuriousPoll(t, w) ==
    /\ Pollable(t)
    /\ timer[t].polled /\ ~timer[t].notified
    /\ poll(t, w)

\* A Phase that was dropped: its receivers are gone with it, and its waker
\* fields are read no more.
Gone(ph, st) ==
    [ph EXCEPT !.st = st, !.waker = None, !.lastWaker = "none", !.notified = FALSE]

\* The await has returned Ready and the Phase is dropped, its receivers too.
consume(t) ==
    /\ timer[t].st = "ready"
    /\ timer' = [timer EXCEPT ![t] = Gone(@, "consumed")]
    /\ ret' = NoRet
    /\ UNCHANGED << now, sess, chan, thr >>

\* A Phase is dropped before it resolved.
drop_phase(t) ==
    /\ timer[t].st = "pending"
    /\ timer' = [timer EXCEPT ![t] = Gone(@, "dropped")]
    /\ ret' = NoRet
    /\ UNCHANGED << now, sess, chan, thr >>

\* ---------------------------------------------------- waker thread
\* Mutant: the thread goes on only when the Phase still holds the receiver.
SendNeedsReceiver(k) ==
    RxAlive(thr[k].timer) /\ timer[thr[k].timer].waker = Some(k)

\* match send.send(()): after Ok and after Err the thread goes on to wake.
SendTolerated(k) == TRUE

\* The thread has slept until `when` and sends () on its channel.
ThreadSignal(k) ==
    /\ thr[k].pc = "sleep"
    /\ now >= thr[k].when
    /\ SendTolerated(k)
    /\ thr' = [thr EXCEPT ![k].pc = "wake", ![k].when = 0]
    /\ ret' = NoRet
    /\ UNCHANGED << now, sess, timer, chan >>

\* waker.wake_by_ref(): the task that polled with this waker last is polled
\* again.
ThreadWake(k) ==
    /\ thr[k].pc = "wake"
    /\ thr' = [thr EXCEPT ![k] = [NoThread EXCEPT !.pc = "done"]]
    /\ timer' = [t \in TimerIds |->
                   IF timer[t].st = "pending" /\ timer[t].lastWaker = thr[k].cell
                   THEN [timer[t] EXCEPT !.notified = TRUE]
                   ELSE timer[t]]
    /\ ret' = NoRet
    /\ UNCHANGED << now, sess, chan >>

\* ------------------------------------------------ the Session's API
\* One Session, built from any of the configurations, used by callers that
\* may call anything at any time.  Its Phases are polled by one task, "a",
\* at any time (a Future may be polled whether or not it was woken), which
\* covers every schedule the waker threads can produce; the waker threads
\* themselves run under WakeSpec.
ApiSessions == {1}

NoReport == [msg |-> "none", id |-> 0]

\* pc: where the task stands; s: the Session it built; phase: the Phase it
\* awaits; said: the message it sent to the channel when its loop ended.
NoTask == [pc |-> "idle", s |-> 0, phase |-> 0, said |-> NoReport]

\* Nothing is registered and no command runs.
NoCommands ==
    /\ sessions = [c \in Channels |-> None]
    /\ lock = "none"
    /\ task = [k \in Tasks |-> NoTask]

Init ==
    /\ now = 0
    /\ \E cfg \in Configs :
         sess = [s \in SessIds |-> IF s \in ApiSessions THEN from_config(cfg) ELSE NoSess]
    /\ timer = [t \in TimerIds |-> NoTimer]
    /\ chan = [t \in TimerIds |-> NoChan]
    /\ thr = [k \in ThreadIds |-> NoThread]
    /\ ret = NoRet
    /\ NoCommands

AnyPoll(t) ==
    /\ Pollable(t)
    /\ poll(t, "a")

\* The Phases advance has returned for Session s.
TimersOf(s) == { t \in TimerIds : timer[t].st # "none" /\ timer[t].session = s }

Next ==
    \/ \E s \in ApiSessions : advance(s) /\ UNCHANGED cmdvars
    \/ \E s \in ApiSessions : skip(s) /\ UNCHANGED cmdvars
    \/ \E s \in ApiSessions : stop(s) /\ UNCHANGED cmdvars
    \/ \E s \in ApiSessions : status(s) /\ UNCHANGED cmdvars
    \/ \E s \in ApiSessions : \E u \in Users : add_member(s, u) /\ UNCHANGED cmdvars
    \/ \E s \in ApiSessions : \E u \in Users : remove_member(s, u) /\ UNCHANGED cmdvars
    \/ \E s \in ApiSessions : drop_session(s) /\ UNCHANGED cmdvars
    \/ \E t \in TimerIds : AnyPoll(t) /\ UNCHANGED cmdvars
    \/ \E t \in TimerIds : consume(t) /\ UNCHANGED cmdvars
    \/ \E t \in TimerIds : drop_phase(t) /\ UNCHANGED cmdvars
    \/ Tick /\ UNCHANGED cmdvars

Spec == Init /\ [][Next]_vars

\* ------------------------------------------- Phases and waker threads
\* The same Session, called by advance, skip and stop only, with the waker
\* threads running and the Phases polled with either waker.
WakeNext ==
    \/ \E s \in ApiSessions : advance(s) /\ UNCHANGED cmdvars
    \/ \E s \in ApiSessions : skip(s) /\ UNCHANGED cmdvars
    \/ \E s \in ApiSessions : stop(s) /\ UNCHANGED cmdvars
    \/ \E t \in TimerIds : \E w \in Wakers : WokenPoll(t, w) /\ UNCHANGED cmdvars
    \/ \E t \in TimerIds : \E w \in Wakers : SpuriousPoll(t, w) /\ UNCHANGED cmdvars
    \/ \E t \in TimerIds : consume(t) /\ UNCHANGED cmdvars
    \/ \E k \in ThreadIds : ThreadSignal(k) /\ UNCHANGED cmdvars
    \/ \E k \in ThreadIds : ThreadWake(k) /\ UNCHANGED cmdvars
    \/ Tick /\ UNCHANGED cmdvars

WakeSpec == Init /\ [][WakeNext]_vars

\* The scheduling the runtime gives: the clock advances, a waker thread that
\* can run does (the operating system schedules it), and a task that was
\* woken, or awaits a Phase it has not polled yet, is polled (the executor
\* runs it).  A poll that nothing asked for is never owed.
Clock == Tick /\ UNCHANGED cmdvars
ThreadRuns(k) == (ThreadSignal(k) \/ ThreadWake(k)) /\ UNCHANGED cmdvars
TaskPolled(t) == (\E w \in Wakers : WokenPoll(t, w)) /\ UNCHANGED cmdvars

FairWakeSpec ==
    /\ WakeSpec
    /\ WF_vars(Clock)
    /\ \A k \in ThreadIds : WF_vars(ThreadRuns(k))
    /\ \A t \in TimerIds : WF_vars(TaskPolled(t))

\* ------------------------------------------- Phases that are awaited
\* The Session driven the way run_session drives it: advance is called
\* again only when the Phase of the previous advance was awaited to its end
\* and dropped.  Skip and stop come from other tasks at any time, the Phase
\* is polled with either waker, and the waker threads run.
Awaited(s) == \A t \in TimersOf(s) : timer[t].st = "consumed"

AwaitNext ==
    \/ \E s \in ApiSessions : Awaited(s) /\ advance(s) /\ UNCHANGED cmdvars
    \/ \E s \in ApiSessions : skip(s) /\ UNCHANGED cmdvars
    \/ \E s \in ApiSessions : stop(s) /\ UNCHANGED cmdvars
    \/ \E t \in TimerIds : \E w \in Wakers : WokenPoll(t, w) /\ UNCHANGED cmdvars
    \/ \E t \in TimerIds : \E w \in Wakers : SpuriousPoll(t, w) /\ UNCHANGED cmdvars
    \/ \E t \in TimerIds : consume(t) /\ UNCHANGED cmdvars
    \/ \E k \in ThreadIds : ThreadSignal(k) /\ UNCHANGED cmdvars
    \/ \E k \in ThreadIds : ThreadWake(k) /\ UNCHANGED cmdvars
    \/ Tick /\ UNCHANGED cmdvars

\* The scheduling of FairWakeSpec: the clock, the waker threads and the
\* poll of a task that was woken or has not polled yet.
FairAwaitSpec ==
    /\ Init
    /\ [][AwaitNext]_vars
    /\ WF_vars(Clock)
    /\ \A k \in ThreadIds : WF_vars(ThreadRuns(k))
    /\ \A t \in TimerIds : WF_vars(TaskPolled(t))

\* ------------------------------------------- Phases that are abandoned
\* The Phases of one Session polled by one task, with the waker threads
\* running, where a Phase may also be dropped before it resolved (the task
\* that awaits it is cancelled).
AbandonNext ==
    \/ \E s \in ApiSessions : advance(s) /\ UNCHANGED cmdvars
    \/ \E s \in ApiSessions : skip(s) /\ UNCHANGED cmdvars
    \/ \E t \in TimerIds : WokenPoll(t, "a") /\ UNCHANGED cmdvars
    \/ \E t \in TimerIds : SpuriousPoll(t, "a") /\ UNCHANGED cmdvars
    \/ \E t \in TimerIds : consume(t) /\ UNCHANGED cmdvars
    \/ \E t \in TimerIds : drop_phase(t) /\ UNCHANGED cmdvars
    \/ \E k \in ThreadIds : ThreadSignal(k) /\ UNCHANGED cmdvars
    \/ \E k \in ThreadIds : ThreadWake(k) /\ UNCHANGED cmdvars
    \/ Tick /\ UNCHANGED cmdvars

\* The clock advances and a waker thread that can run does; no poll is
\* owed to a Phase.
AbandonSpec ==
    /\ Init
    /\ [][AbandonNext]_vars
    /\ WF_vars(Clock)
    /\ \A k \in ThreadIds : WF_vars(ThreadRuns(k))

\* ------------------------------------------------- the commands
\* src/commands/pomo.rs: start (which goes on into run_session), skip and
\* stop, each in the channel it was given in.  The registry is one HashMap
\* of Sessions behind one async mutex; a task that finds the mutex taken
\* waits (its step is not enabled).
TheChannel == "c1"

\* Another channel, and the tasks of the commands given there.
OtherChannel == "c2"

\* ctx.channel_id(): the channel in which the command of task x was given.
ChannelOf(x) == IF x \in OtherTasks THEN OtherChannel ELSE TheChannel

\* The id (Uuid::new_v4()) of the Session the start command of task r builds.
SessionOf(r) == IF r = "r1" THEN 1 ELSE 2

\* sessions.get_mut(&ctx.channel_id())
get_mut(c) == sessions[c]

\* start: the lock is taken for contains_key only.
start_check(r) ==
    /\ task[r].pc = "idle"
    /\ lock = "none"
    /\ task' = [task EXCEPT ![r].pc = IF IsSome(get_mut(ChannelOf(r)))
                                      THEN "refused" ELSE "reply"]
    /\ ret' = NoRet
    /\ UNCHANGED << now, sess, timer, chan, thr, sessions, lock >>

\* start: the reply is sent and the Session built from the arguments; a
\* reply that fails ends the command.
start_build(r) ==
    /\ task[r].pc = "reply"
    /\ \/ \E cfg \in Configs :
            /\ sess' = [sess EXCEPT ![SessionOf(r)] = from_config(cfg)]
            /\ task' = [task EXCEPT ![r].pc = "built", ![r].s = SessionOf(r)]
       \/ /\ task' = [task EXCEPT ![r].pc = "done"]
          /\ UNCHANGED sess
    /\ ret' = NoRet
    /\ UNCHANGED << now, timer, chan, thr, sessions, lock >>

\* run_session: the lock is taken and the Session inserted; a Session that
\* was registered under the channel is replaced, and dropped.
run_insert(r) ==
    /\ task[r].pc = "built"
    /\ lock = "none"
    /\ IF IsSome(get_mut(ChannelOf(r)))
       THEN drop_session(Unwrap(get_mut(ChannelOf(r))))
       ELSE ret' = NoRet /\ UNCHANGED << now, sess, timer, chan, thr >>
    /\ sessions' = [sessions EXCEPT ![ChannelOf(r)] = Some(task[r].s)]
    /\ lock' = r
    /\ task' = [task EXCEPT ![r].pc = "inserted"]

\* Mutant: the run loop keeps the guard while it awaits the Phase.
GuardKept(r) == r

\* drop(sessions): the run loop gives the lock up before it awaits.
GuardDropped(r) == "none"

\* The run loop calls advance on the Session registered under its channel; a
\* panic in advance ends the task.
RunAdvance(r) ==
    /\ advance(Unwrap(get_mut(ChannelOf(r))))
    /\ task' = [task EXCEPT ![r] =
                   IF ret'.res = "panic"
                   THEN [@ EXCEPT !.pc = "panicked", !.phase = 0]
                   ELSE [@ EXCEPT !.pc = "await", !.phase = NewTimer]]
    /\ lock' = IF ret'.res = "panic" THEN "none" ELSE GuardDropped(r)
    /\ UNCHANGED sessions

\* run_session: the first advance, and the lock is dropped.
run_first_advance(r) ==
    /\ task[r].pc = "inserted"
    /\ lock = r
    /\ RunAdvance(r)

\* phase.await: the Phase is polled.
run_poll(r) ==
    /\ task[r].pc = "await"
    /\ AnyPoll(task[r].phase)
    /\ UNCHANGED cmdvars

\* Mutant: the loop goes on after every result but Stopped.
LoopsOnFailed(res) == res \in {"Completed", "Skipped", "Failed"}

\* while let PhaseResult::Completed(_) | PhaseResult::Skipped(_) = result
LoopsOn(res) == res \in {"Completed", "Skipped"}

\* The message run_session sends after its loop: "Session stopped!", or
\* "Session {id} failed!" with the id it read from its Session at the start.
Report(res, id) ==
    IF res = "Stopped" THEN [msg |-> "Session stopped!", id |-> 0]
    ELSE IF res = "Failed" THEN [msg |-> "Session {id} failed!", id |-> id]
    ELSE NoReport

\* phase.await returns the result, and the Phase is dropped; after the loop
\* the message is sent.
run_resolved(r) ==
    /\ task[r].pc = "await"
    /\ consume(task[r].phase)
    /\ LET res == timer[task[r].phase].outcomes[1].res
       IN task' = [task EXCEPT ![r].pc = IF LoopsOn(res) THEN "next" ELSE "finish",
                               ![r].said = IF LoopsOn(res) THEN @ ELSE Report(res, task[r].s)]
    /\ UNCHANGED << sessions, lock >>

\* run_session, the loop after Completed or Skipped: the lock is taken, the
\* Session looked up (the task panics if none is registered), advance
\* called, and the lock dropped.
run_next(r) ==
    /\ task[r].pc = "next"
    /\ lock = "none"
    /\ IF IsSome(get_mut(ChannelOf(r)))
       THEN RunAdvance(r)
       ELSE /\ task' = [task EXCEPT ![r].pc = "panicked", ![r].phase = 0]
            /\ ret' = NoRet
            /\ UNCHANGED << now, sess, timer, chan, thr, sessions, lock >>

\* run_session after Stopped or Failed: whatever is registered under the
\* channel is removed, and dropped.
run_finish(r) ==
    /\ task[r].pc = "finish"
    /\ lock = "none"
    /\ IF IsSome(get_mut(ChannelOf(r)))
       THEN drop_session(Unwrap(get_mut(ChannelOf(r))))
       ELSE ret' = NoRet /\ UNCHANGED << now, sess, timer, chan, thr >>
    /\ sessions' = [sessions EXCEPT ![ChannelOf(r)] = None]
    /\ task' = [task EXCEPT ![r].pc = "done", ![r].phase = 0]
    /\ UNCHANGED lock

\* The skip command: the guard of the lock lives to the end of the `if let`,
\* over the reply.
cmd_skip(k) ==
    /\ task[k].pc = "idle"
    /\ lock = "none"
    /\ IF IsSome(get_mut(ChannelOf(k)))
       THEN skip(Unwrap(get_mut(ChannelOf(k))))
       ELSE ret' = NoRet /\ UNCHANGED << now, sess, timer, chan, thr >>
    /\ lock' = k
    /\ task' = [task EXCEPT ![k].pc = "reply"]
    /\ UNCHANGED sessions

\* The stop command, likewise.
cmd_stop(k) ==
    /\ task[k].pc = "idle"
    /\ lock = "none"
    /\ IF IsSome(get_mut(ChannelOf(k)))
       THEN stop(Unwrap(get_mut(ChannelOf(k))))
       ELSE ret' = NoRet /\ UNCHANGED << now, sess, timer, chan, thr >>
    /\ lock' = k
    /\ task' = [task EXCEPT ![k].pc = "reply"]
    /\ UNCHANGED sessions

\* The reply of skip or stop is sent (or fails); the guard is dropped.
cmd_reply(k) ==
    /\ task[k].pc = "reply"
    /\ lock = k
    /\ lock' = "none"
    /\ task' = [task EXCEPT ![k].pc = "idle"]
    /\ ret' = NoRet
    /\ UNCHANGED << now, sess, timer, chan, thr, sessions >>

\* The status, join and leave commands: one Session call under the lock.
cmd_status(k) ==
    /\ task[k].pc = "idle"
    /\ lock = "none"
    /\ IsSome(get_mut(ChannelOf(k)))
    /\ status(Unwrap(get_mut(ChannelOf(k))))
    /\ UNCHANGED cmdvars

cmd_join(k, u) ==
    /\ task[k].pc = "idle"
    /\ lock = "none"
    /\ IsSome(get_mut(ChannelOf(k)))
    /\ add_member(Unwrap(get_mut(ChannelOf(k))), u)
    /\ UNCHANGED cmdvars

cmd_leave(k, u) ==
    /\ task[k].pc = "idle"
    /\ lock = "none"
    /\ IsSome(get_mut(ChannelOf(k)))
    /\ remove_member(Unwrap(get_mut(ChannelOf(k))), u)
    /\ UNCHANGED cmdvars

\* No Session exists until a start command builds one.
RunInit ==
    /\ now = 0
    /\ sess = [s \in SessIds |-> NoSess]
    /\ timer = [t \in TimerIds |-> NoTimer]
    /\ chan = [t \in TimerIds |-> NoChan]
    /\ thr = [k \in ThreadIds |-> NoThread]
    /\ ret = NoRet
    /\ NoCommands

\* One start command is given, and any number of the other commands.
OneRun == {"r1"}

RunNext ==
    \/ \E r \in OneRun : start_check(r)
    \/ \E r \in OneRun : start_build(r)
    \/ \E r \in OneRun : run_insert(r)
    \/ \E r \in OneRun : run_first_advance(r)
    \/ \E r \in OneRun : run_poll(r)
    \/ \E r \in OneRun : run_resolved(r)
    \/ \E r \in OneRun : run_next(r)
    \/ \E r \in OneRun : run_finish(r)
    \/ \E k \in Cmds : cmd_skip(k)
    \/ \E k \in Cmds : cmd_stop(k)
    \/ \E k \in Cmds : cmd_reply(k)
    \/ \E k \in Cmds : cmd_status(k)
    \/ \E k \in Cmds : \E u \in Users : cmd_join(k, u)
    \/ \E k \in Cmds : \E u \in Users : cmd_leave(k, u)
    \/ Tick /\ UNCHANGED cmdvars

RunSpec == RunInit /\ [][RunNext]_vars

\* Two start commands are given in the same channel, and any number of skip
\* and stop commands.
RaceNext ==
    \/ \E r \in Runs : start_check(r)
    \/ \E r \in Runs : start_build(r)
    \/ \E r \in Runs : run_insert(r)
    \/ \E r \in Runs : run_first_advance(r)
    \/ \E r \in Runs : run_poll(r)
    \/ \E r \in Runs : run_resolved(r)
    \/ \E r \in Runs : run_next(r)
    \/ \E r \in Runs : run_finish(r)
    \/ \E k \in Cmds : cmd_skip(k)
    \/ \E k \in Cmds : cmd_stop(k)
    \/ \E k \in Cmds : cmd_reply(k)
    \/ Tick /\ UNCHANGED cmdvars

RaceSpec == RunInit /\ [][RaceNext]_vars

\* One start command in each of two channels, skip commands in both and
\* stop commands in the first.
TwoChannelRuns == {"r1"} \cup OtherRuns
TwoChannelCmds == Cmds \cup OtherCmds

ContendNext ==
    \/ \E r \in TwoChannelRuns : start_check(r)
    \/ \E r \in TwoChannelRuns : start_build(r)
    \/ \E r \in TwoChannelRuns : run_insert(r)
    \/ \E r \in TwoChannelRuns : run_first_advance(r)
    \/ \E r \in TwoChannelRuns : run_poll(r)
    \/ \E r \in TwoChannelRuns : run_resolved(r)
    \/ \E r \in TwoChannelRuns : run_next(r)
    \/ \E r \in TwoChannelRuns : run_finish(r)
    \/ \E k \in TwoChannelCmds : cmd_skip(k)
    \/ \E k \in Cmds : cmd_stop(k)
    \/ \E k \in TwoChannelCmds : cmd_reply(k)
    \/ Tick /\ UNCHANGED cmdvars

ContendSpec == RunInit /\ [][ContendNext]_vars

\* ------------------------------------------------------------ main
\* src/main.rs: one Session behind a mutex, a `run` task that drives it with
\* the loop of run_session, and a `mess_with` task that sleeps, calls skip,
\* sleeps and calls stop, each with expect.  The sleeps end at any time.
MainSession == 1
MainRun == "r1"
MessWith == "k1"

\* SessionConfig::default().work(5).short(1).long(2), with lengths the
\* clock can reach.
MainConfigs == { cfg \in Configs : cfg.interval > 0 }

MainInit ==
    /\ now = 0
    /\ \E cfg \in MainConfigs :
         sess = [s \in SessIds |-> IF s = MainSession THEN from_config(cfg) ELSE NoSess]
    /\ timer = [t \in TimerIds |-> NoTimer]
    /\ chan = [t \in TimerIds |-> NoChan]
    /\ thr = [k \in ThreadIds |-> NoThread]
    /\ ret = NoRet
    /\ NoCommands

\* session_1.lock().unwrap().advance()
MainAdvance(r) ==
    /\ advance(MainSession)
    /\ task' = [task EXCEPT ![r] =
                   IF ret'.res = "panic"
                   THEN [@ EXCEPT !.pc = "panicked", !.phase = 0]
                   ELSE [@ EXCEPT !.pc = "await", !.s = MainSession, !.phase = NewTimer]]
    /\ UNCHANGED << sessions, lock >>

\* The first advance of the run task.
main_first_advance(r) ==
    /\ task[r].pc = "idle"
    /\ MainAdvance(r)

\* The advance in the loop, after Completed or Skipped.
main_next(r) ==
    /\ task[r].pc = "next"
    /\ MainAdvance(r)

\* .expect(..) on the result of skip or stop: Err panics the task.
Expect(res, then) == IF res = "Ok" THEN then ELSE "panicked"

\* session_2.lock().unwrap().skip().expect("failed to skip")
mess_skip(k) ==
    /\ task[k].pc = "idle"
    /\ skip(MainSession)
    /\ task' = [task EXCEPT ![k].pc = Expect(ret'.res, "skipped")]
    /\ UNCHANGED << sessions, lock >>

\* session_2.lock().unwrap().stop().expect("failed to stop")
mess_stop(k) ==
    /\ task[k].pc = "skipped"
    /\ stop(MainSession)
    /\ task' = [task EXCEPT ![k].pc = Expect(ret'.res, "done")]
    /\ UNCHANGED << sessions, lock >>

MainNext ==
    \/ main_first_advance(MainRun)
    \/ run_poll(MainRun)
    \/ run_resolved(MainRun)
    \/ main_next(MainRun)
    \/ mess_skip(MessWith)
    \/ mess_stop(MessWith)
    \/ Tick /\ UNCHANGED cmdvars

MainSpec == MainInit /\ [][MainNext]_vars

\* ------------------------------------------------------ phase_at alone
\* SessionConfig::default()
DefaultConfig == [work |-> 25, short |-> 5, long |-> 15, interval |-> 4]

\* The configurations phase_at is evaluated on: the default one, and every
\* interval a usize holds, with three durations that differ.
PhaseConfigs ==
    {DefaultConfig}
    \cup { [work |-> 1, short |-> 2, long |-> 3, interval |-> n] : n \in 0..(UsizeLimit - 1) }

\* The indexes a usize holds.
Indexes == 0..(UsizeLimit - 1)

\* One call of phase_at on the config of Session s.
phase_at_call(s, i) ==
    /\ Live(s)
    /\ \E o \in PhaseAtOutcomes(sess[s].config, i) :
          ret' = [Ret("phase_at", s, o,
                      IF o = "panic" THEN NoType ELSE phase_at(sess[s].config, i))
                  EXCEPT !.arg = i]
    /\ UNCHANGED << now, sess, timer, chan, thr >>

PhaseAtInit ==
    /\ now = 0
    /\ \E cfg \in PhaseConfigs :
         sess = [s \in SessIds |-> IF s \in ApiSessions THEN from_config(cfg) ELSE NoSess]
    /\ timer = [t \in TimerIds |-> NoTimer]
    /\ chan = [t \in TimerIds |-> NoChan]
    /\ thr = [k \in ThreadIds |-> NoThread]
    /\ ret = NoRet
    /\ NoCommands

PhaseAtNext ==
    \E s \in ApiSessions : \E i \in Indexes : phase_at_call(s, i) /\ UNCHANGED cmdvars

PhaseAtSpec == PhaseAtInit /\ [][PhaseAtNext]_vars

\* ---------------------------------------------------- until_long alone
\* The configurations until_long is evaluated on: every interval a usize
\* holds, with two sets of durations.
UntilLongConfigs ==
    { [work |-> w, short |-> 2, long |-> 3, interval |-> n] :
          w \in {1, 5}, n \in 0..(UsizeLimit - 1) }

\* One call of until_long on the config of Session s.
until_long_call(s, i) ==
    /\ Live(s)
    /\ \E o \in UntilLongOutcomes(sess[s].config, i) :
          ret' = [Ret("until_long", s, o, NoType)
                  EXCEPT !.arg = i,
                         !.val = IF o = "panic" THEN 0 ELSE until_long(sess[s].config, i)]
    /\ UNCHANGED << now, sess, timer, chan, thr >>

UntilLongInit ==
    /\ now = 0
    /\ \E cfg \in UntilLongConfigs :
         sess = [s \in SessIds |-> IF s \in ApiSessions THEN from_config(cfg) ELSE NoSess]
    /\ timer = [t \in TimerIds |-> NoTimer]
    /\ chan = [t \in TimerIds |-> NoChan]
    /\ thr = [k \in ThreadIds |-> NoThread]
    /\ ret = NoRet
    /\ NoCommands

UntilLongNext ==
    \E s \in ApiSessions : \E i \in Indexes : until_long_call(s, i) /\ UNCHANGED cmdvars

UntilLongSpec == UntilLongInit /\ [][UntilLongNext]_vars

\* ------------------------------------------------------ members alone
\* The users that join and leave one Session, while it is advanced,
\* skipped, stopped and asked for its status.
UserIds == {"u1", "u2", "u3"}

MemberNext ==
    \/ \E s \in ApiSessions : advance(s) /\ UNCHANGED cmdvars
    \/ \E s \in ApiSessions : skip(s) /\ UNCHANGED cmdvars
    \/ \E s \in ApiSessions : stop(s) /\ UNCHANGED cmdvars
    \/ \E s \in ApiSessions : status(s) /\ UNCHANGED cmdvars
    \/ \E s \in ApiSessions : \E u \in UserIds : add_member(s, u) /\ UNCHANGED cmdvars
    \/ \E s \in ApiSessions : \E u \in UserIds : remove_member(s, u) /\ UNCHANGED cmdvars

MemberSpec == Init /\ [][MemberNext]_vars

\* ------------------------------------------------------- status alone
\* A Session of any of the configurations above is advanced and asked for
\* its status while the clock runs.
StatusNext ==
    \/ \E s \in ApiSessions : advance(s) /\ UNCHANGED cmdvars
    \/ \E s \in ApiSessions : status(s) /\ UNCHANGED cmdvars
    \/ Tick /\ UNCHANGED cmdvars

StatusSpec == UntilLongInit /\ [][StatusNext]_vars

\* =============================================================== claims
Started(t) == timer[t].st # "none"
Resolved(t) == Len(timer[t].outcomes) > 0
Outcome(t) == timer[t].outcomes[1]
ConfigOf(t) == sess[timer[t].session].config
\* The Phase that the latest advance of session s returned.
LatestTimer(s) ==
    CHOOSE t \in TimersOf(s) : \A u \in TimersOf(s) : timer[u].index <= timer[t].index
Outcomes == {"Completed", "Skipped", "Stopped", "Failed"}
\* The outcome a poll of Phase t gives when it resolves it as `res`.
OutcomeOf(t, res) ==
    << [res |-> res, kind |-> timer[t].phase_type, first |-> ~timer[t].polled] >>

\* C1: every Phase produces at most one outcome, one of Completed, Skipped,
\* Stopped and Failed, and has produced it exactly when a poll has returned
\* Ready; waker threads that fire and signals that are sent afterwards
\* produce no second one.
C1_OneOutcome ==
    \A t \in TimerIds :
        /\ Len(timer[t].outcomes) <= 1
        /\ timer[t].st \in {"ready", "consumed"} <=> Len(timer[t].outcomes) = 1
        /\ Resolved(t) => Outcome(t).res \in Outcomes

\* A consumed Phase to which a signal was sent too late, with a waker thread
\* that has fired.
C1_Witness ==
    \E t \in TimerIds :
        /\ timer[t].st = "consumed"
        /\ Outcome(t).res = "Completed"
        /\ chan[t].nsent = 1 /\ chan[t].sent = "none"
        /\ \E k \in ThreadIds : thr[k].pc = "done"

\* After a poll of Phase t returned Pending a wake source is armed: the
\* waker thread of the Phase is still to call wake on the waker of the
\* latest poll, or it has, and the task is due to be polled.
Armed(t) ==
    timer[t].st = "pending" /\ timer[t].polled =>
        /\ IsSome(timer[t].waker)
        /\ LET k == thr[Unwrap(timer[t].waker)]
           IN \/ k.pc \in {"sleep", "wake"} /\ k.timer = t /\ k.cell = timer[t].lastWaker
              \/ k.pc = "done" /\ timer[t].notified

\* C2: every poll that returns Pending leaves a wake source armed with the
\* latest waker, and so a pending Phase whose deadline the clock reaches
\* is resolved, and resolved Completed(kind) when no signal was sent and the
\* sender is still held.
C2_EventuallyCompleted ==
    /\ [](\A t \in TimerIds : Armed(t))
    /\ \A t \in TimerIds :
          (timer[t].st = "pending" /\ timer[t].end <= MaxTime)
              ~> /\ Resolved(t)
                 /\ chan[t].tx = "held" =>
                       /\ Outcome(t).res = "Completed"
                       /\ Outcome(t).kind = timer[t].phase_type

\* A Phase that was Pending on its first poll with waker "a", was polled
\* again with waker "b", and completed once a waker thread had fired.
C2_Witness ==
    \E t \in TimerIds :
        /\ Resolved(t) /\ Outcome(t).res = "Completed" /\ ~Outcome(t).first
        /\ chan[t].tx = "held" /\ timer[t].lastWaker = "b"
        /\ \E k \in ThreadIds : thr[k].pc = "done"

\* C3: a Phase whose Skip (Stop) signal was sent strictly before its
\* deadline resolves Skipped (Stopped), with the kind phase_at gives for the
\* index the Phase was started with.
C3_SignalBeforeDeadline ==
    \A t \in TimerIds :
        Resolved(t) /\ chan[t].sent # "none" /\ chan[t].early =>
            /\ Outcome(t).res = IF chan[t].sent = "Skip" THEN "Skipped" ELSE "Stopped"
            /\ Outcome(t).kind = phase_at(ConfigOf(t), timer[t].index)

\* config(1,1,1,1): advance, skip at once, and the Phase is Skipped(Work(1)).
C3_Witness ==
    /\ sess[1].config = [work |-> 1, short |-> 1, long |-> 1, interval |-> 1]
    /\ chan[1].sent = "Skip" /\ chan[1].early
    /\ timer[1].outcomes = << [res |-> "Skipped", kind |-> Work(1), first |-> TRUE] >>

SenderDroppedUnsent(t) == chan[t].tx = "dropped" /\ chan[t].nsent = 0

\* C4: a poll resolves a Phase Failed(kind) exactly when the sender of its
\* channel was dropped with no signal sent.
C4_FailedIffSenderDropped ==
    [][\A t \in TimerIds :
          AnyPoll(t) =>
              (SenderDroppedUnsent(t) <=> timer'[t].outcomes = OutcomeOf(t, "Failed"))]_vars

\* Phase 1 failed because a later advance replaced its handle, Phase 2
\* because the Session was dropped.
C4_Witness ==
    /\ sess[1].st = "dropped"
    /\ Resolved(1) /\ Outcome(1).res = "Failed"
    /\ Resolved(2) /\ Outcome(2).res = "Failed"

\* The deadline of Phase t was not in the future when it was constructed.
PastDeadline(t) == Started(t) /\ EndOf(0, timer[t].phase_type) <= 0

\* C5 as stated: a Phase constructed with a past deadline resolves Completed
\* on its first poll.
C5_Original ==
    \A t \in TimerIds :
        PastDeadline(t) /\ timer[t].polled =>
            timer[t].outcomes = << [res |-> "Completed", kind |-> timer[t].phase_type,
                                    first |-> TRUE] >>

\* C5, amended: a Phase constructed with a past deadline resolves on its
\* first poll, and resolves Completed when at that poll no signal is waiting
\* and the sender is still held.
C5_PastDeadline ==
    [][\A t \in TimerIds :
          AnyPoll(t) /\ ~timer[t].polled /\ PastDeadline(t) =>
              /\ timer'[t].st = "ready"
              /\ chan[t].val = "Empty" /\ chan[t].tx = "held" =>
                    timer'[t].outcomes = OutcomeOf(t, "Completed")]_vars

\* A zero-length work phase that completed on its first poll.
C5_Witness ==
    \E t \in TimerIds :
        /\ PastDeadline(t)
        /\ timer[t].outcomes = << [res |-> "Completed", kind |-> Work(0), first |-> TRUE] >>

\* C6: skip and stop on a Session with no handle return NotActive, send
\* nothing and change neither the Session nor any Phase.
C6_NotActive ==
    [][\A s \in SessIds :
          (skip(s) \/ stop(s)) /\ ~IsSome(sess[s].current_phase) =>
              /\ ret'.res = "NotActive"
              /\ sess' = sess /\ chan' = chan /\ timer' = timer]_vars

\* skip on a Session that was never advanced has returned NotActive.
C6_Witness ==
    /\ ret.op = "skip" /\ ret.res = "NotActive"
    /\ sess[1].next_index = 0

\* A signal was sent (or its send attempted) to the latest Phase of s.
Signalled(s) == TimersOf(s) # {} /\ chan[LatestTimer(s)].nsent > 0

\* C7: at most one signal is ever sent to a Phase, and once skip or stop has
\* been applied to the current phase every further skip or stop before the
\* next advance returns NotActive and sends nothing.
C7_HandleConsumed ==
    /\ [](\A t \in TimerIds : chan[t].nsent <= 1)
    /\ [][\A s \in SessIds :
             (skip(s) \/ stop(s)) /\ Signalled(s) =>
                 ret'.res = "NotActive" /\ chan' = chan]_vars

\* stop after skip, with the skipped Phase still pending, returned NotActive.
C7_Witness ==
    /\ ret.op = "stop" /\ ret.res = "NotActive"
    /\ sess[1].next_index = 1
    /\ chan[1].sent = "Skip" /\ timer[1].st = "pending"

\* C8: a Phase superseded by a later advance holds no live sender, cannot
\* resolve Skipped or Stopped unless its signal had been sent before, and
\* skip and stop touch the channel of the latest Phase only.
C8_Superseded ==
    /\ [](\A t \in TimerIds :
            Started(t) /\ t # LatestTimer(timer[t].session) =>
                /\ chan[t].tx # "held"
                /\ chan[t].nsent = 0 /\ Resolved(t) =>
                      Outcome(t).res \notin {"Skipped", "Stopped"})
    /\ [][\A s \in SessIds : \A t \in TimerIds :
             (skip(s) \/ stop(s)) /\ chan'[t] # chan[t] => t = LatestTimer(s)]_vars

\* advance twice, then skip: Phase 1 failed, Phase 2 was skipped.
C8_Witness ==
    /\ chan[1].nsent = 0 /\ Resolved(1) /\ Outcome(1).res = "Failed"
    /\ chan[2].sent = "Skip" /\ Resolved(2) /\ Outcome(2).res = "Skipped"

\* C9: next_index is the number of Phases advance has returned (0 at
\* creation), and only advance changes it, by one.
C9_NextIndex ==
    /\ [](\A s \in SessIds : sess[s].next_index = Cardinality(TimersOf(s)))
    /\ [][\A s \in SessIds :
             sess'[s].next_index # sess[s].next_index =>
                 advance(s) /\ sess'[s].next_index = sess[s].next_index + 1]_vars

\* Two advances, then a status call.
C9_Witness ==
    /\ sess[1].next_index = 2
    /\ ret.op = "status" /\ ret.res = "Running"
    /\ sess[1].members # {}

\* The Phase of Session s that its advance number n returned, n = 1, 2, ...
\* (Phases are numbered in the order in which they are constructed).
NthTimer(s, n) ==
    CHOOSE t \in TimersOf(s) : Cardinality({ u \in TimersOf(s) : u <= t }) = n

\* C10: whatever skip, stop, status, join and leave commands interleave with
\* the run loop, the k-th advance that returns a Phase for a Session returns
\* phase_at(k - 1): a work phase when k is odd and a break when it is even,
\* no index used twice and none left out.
C10_PhaseSequence ==
    /\ [](\A s \in SessIds : \A k \in 1..Cardinality(TimersOf(s)) :
            LET t == NthTimer(s, k)
            IN /\ timer[t].phase_type = phase_at(sess[s].config, k - 1)
               /\ timer[t].phase_type.tag = "Work" <=> k % 2 = 1)
    /\ [][\A r \in Runs : \A s \in SessIds :
             (run_first_advance(r) \/ run_next(r)) /\ TimersOf(s)' # TimersOf(s) =>
                 /\ Cardinality(TimersOf(s)') = Cardinality(TimersOf(s)) + 1
                 /\ ret'.kind = phase_at(sess[s].config, Cardinality(TimersOf(s)))]_vars

\* config(1,1,1,1): the work phase was skipped by the skip command, a member
\* joined, and the run loop went on to the long break at index 1.
C10_Witness ==
    /\ task["r1"].pc = "await" /\ task["r1"].phase = 2
    /\ timer[1].outcomes = << [res |-> "Skipped", kind |-> Work(1), first |-> FALSE] >>
    /\ timer[2].phase_type = Long(1) /\ timer[2].session = timer[1].session
    /\ sess[timer[2].session].members # {}

\* The config and the index of the call of phase_at that has just returned.
CallConfig == sess[ret.s].config
PhaseAtReturned == ret.op = "phase_at" /\ ret.res = "Ok"

\* The kinds of the default config at the indexes 0..7.
DefaultTable ==
    << Work(25), Short(5), Work(25), Short(5), Work(25), Short(5), Work(25), Long(15) >>

\* C11 as stated: for the default config phase_at(i), i = 0..7, is Work(25),
\* Short(5), Work(25), Short(5), Work(25), Short(5), Work(25), Long(15), and
\* for every config with interval n >= 1 a call of phase_at(i) gives
\* Long(long) exactly when i mod 2n = 2n - 1, and otherwise Work(work) or
\* Short(short).
C11_Original ==
    ret.op = "phase_at" =>
        /\ CallConfig = DefaultConfig /\ ret.arg <= 7 =>
               ret.res = "Ok" /\ ret.kind = DefaultTable[ret.arg + 1]
        /\ CallConfig.interval >= 1 =>
               /\ ret.kind = Long(CallConfig.long)
                    <=> ret.arg % (2 * CallConfig.interval) = 2 * CallConfig.interval - 1
               /\ ret.kind \in {Work(CallConfig.work), Short(CallConfig.short),
                                 Long(CallConfig.long)}

\* C11 where interval * 2 fits usize: the same statement, for the intervals n
\* with 1 <= n and 2n < 2^UsizeBits.
C11_WithoutOverflow ==
    ret.op = "phase_at" /\ ~PeriodOverflows(CallConfig) =>
        /\ CallConfig = DefaultConfig /\ ret.arg <= 7 =>
               ret.res = "Ok" /\ ret.kind = DefaultTable[ret.arg + 1]
        /\ CallConfig.interval >= 1 =>
               /\ ret.kind = Long(CallConfig.long)
                    <=> ret.arg % (2 * CallConfig.interval) = 2 * CallConfig.interval - 1
               /\ ret.kind \in {Work(CallConfig.work), Short(CallConfig.short),
                                 Long(CallConfig.long)}

\* The default config at index 7: the fourth break is the long one.
C11_Witness ==
    /\ PhaseAtReturned /\ CallConfig = DefaultConfig
    /\ ret.arg = 7 /\ ret.kind = Long(15)

\* C12: for every config and every index i, phase_at(i) is a Work phase (of
\* the configured work duration) if and only if i is even; on an even index
\* the call never panics.
C12_WorkIffEven ==
    ret.op = "phase_at" =>
        /\ ret.kind.tag = "Work" <=> ret.arg % 2 = 0
        /\ ret.arg % 2 = 0 => ret.res = "Ok" /\ ret.kind = Work(CallConfig.work)

\* An even index and an odd one have been evaluated on a config whose
\* interval * 2 overflows: here, the even one.
C12_Witness ==
    /\ PhaseAtReturned /\ PeriodOverflows(CallConfig)
    /\ ret.arg = UsizeLimit - 2 /\ ret.kind = Work(1)

\* Index j maps to a Long phase under phase_at, in every build.
MapsToLong(cfg, j) ==
    PhaseAtOutcomes(cfg, j) = {"Ok"} /\ phase_at(cfg, j).tag = "Long"

\* C13 as stated: for every config with interval n >= 1 and every index s,
\* exactly one of the 2n indexes s .. s + 2n - 1 maps to a Long phase (s being
\* the index of the call that has just been made, and the window one of
\* indexes that usize holds).
C13_Original ==
    ret.op = "phase_at" /\ CallConfig.interval >= 1
      /\ ret.arg + 2 * CallConfig.interval - 1 < UsizeLimit =>
        Cardinality({ j \in ret.arg..(ret.arg + 2 * CallConfig.interval - 1) :
                        MapsToLong(CallConfig, j) }) = 1

\* C13 where interval * 2 fits usize.
C13_WithoutOverflow ==
    ret.op = "phase_at" /\ CallConfig.interval >= 1 /\ ~PeriodOverflows(CallConfig)
      /\ ret.arg + 2 * CallConfig.interval - 1 < UsizeLimit =>
        Cardinality({ j \in ret.arg..(ret.arg + 2 * CallConfig.interval - 1) :
                        MapsToLong(CallConfig, j) }) = 1

\* A window of six indexes that starts on an odd index, for interval 3.
C13_Witness ==
    /\ PhaseAtReturned /\ CallConfig.interval = 3 /\ ret.arg = 3
    /\ { j \in 3..8 : MapsToLong(CallConfig, j) } = {5}

\* C14: with interval = 1 every break is a long break, and for
\* config(1,1,1,1) the advance that follows the skip of the first phase,
\* Work(1), returns the phase at index 1, Long(1) and not Short(1).
C14_IntervalOne ==
    /\ [](\A s \in SessIds : \A k \in 1..Cardinality(TimersOf(s)) :
            sess[s].config.interval = 1 /\ k % 2 = 0 =>
                timer[NthTimer(s, k)].phase_type = Long(sess[s].config.long))
    /\ [][\A s \in SessIds :
             /\ advance(s)
             /\ sess[s].config = [work |-> 1, short |-> 1, long |-> 1, interval |-> 1]
             /\ Cardinality(TimersOf(s)) = 1
             /\ chan[NthTimer(s, 1)].sent = "Skip"
             => /\ ret'.res = "Ok" /\ ret'.kind = Long(1) /\ ret'.kind # Short(1)
                /\ timer[NthTimer(s, 1)].phase_type = Work(1)
                /\ sess'[s].next_index = 2]_vars

\* config(1,1,1,1): the first Phase resolved Skipped(Work(1)) and the advance
\* after it has just returned Long(1).
C14_Witness ==
    /\ sess[1].config = [work |-> 1, short |-> 1, long |-> 1, interval |-> 1]
    /\ Resolved(1) /\ Outcome(1).res = "Skipped" /\ Outcome(1).kind = Work(1)
    /\ ret.op = "advance" /\ ret.kind = Long(1)
    /\ timer[2].phase_type = Long(1)

\* The Phase that the handle of session s belongs to has resolved on its own
\* and is gone, its receiver with it.
ResolvedAlone(s) ==
    /\ IsSome(sess[s].current_phase)
    /\ LET t == Unwrap(sess[s].current_phase).send
       IN /\ ~RxAlive(t) /\ Resolved(t) /\ Outcome(t).res = "Completed"

C16_StopSurfaces ==
    [][\A s \in SessIds :
          stop(s) =>
              /\ IsSome(sess[s].current_phase)
                    /\ ~RxAlive(Unwrap(sess[s].current_phase).send)
                    => ret'.res = NotActive
              /\ ret'.res = "Ok" =>
                    /\ IsSome(sess[s].current_phase)
                    /\ chan[Unwrap(sess[s].current_phase).send].val = "Empty"
                    /\ chan'[Unwrap(sess[s].current_phase).send].val = "Stop"]_vars

\* stop has returned NotActive for a Phase that had completed on its own and
\* been consumed.
C16_Witness ==
    /\ ret.op = "stop" /\ ret.res = NotActive
    /\ timer[1].st = "consumed" /\ Outcome(1).res = "Completed"
    /\ chan[1].tx = "dropped" /\ chan[1].nsent = 1 /\ chan[1].sent = "none"
    /\ sess[1].next_index = 1

\* A Phase of session s is running: it has not resolved and is not dropped.
Running(s) == \E t \in TimersOf(s) : timer[t].st = "pending"

\* C17: in every reachable state the handle current_phase is present if and
\* only if a Phase of the session is still pending, and it is absent before
\* the first advance and after the session is gone.
C17_Original ==
    \A s \in SessIds :
        /\ IsSome(sess[s].current_phase) <=> Running(s)
        /\ TimersOf(s) = {} => sess[s].current_phase = None
        /\ ~Live(s) => sess[s].current_phase = None

\* C17, what the code keeps: the handle is present exactly while it holds the
\* unused sender of the Phase the latest advance returned, whether or not
\* that Phase has resolved; it is absent before the first advance and after
\* the session is gone.
C17_HandleIffSenderHeld ==
    \A s \in SessIds :
        /\ IsSome(sess[s].current_phase) <=>
              (TimersOf(s) # {} /\ chan[LatestTimer(s)].tx = "held")
        /\ IsSome(sess[s].current_phase) =>
              Unwrap(sess[s].current_phase).send = LatestTimer(s)
        /\ TimersOf(s) = {} => sess[s].current_phase = None
        /\ ~Live(s) => sess[s].current_phase = None

\* The handle is present although its Phase completed on its own and is
\* gone.
C17_Witness ==
    /\ IsSome(sess[1].current_phase)
    /\ timer[1].st = "consumed" /\ Outcome(1).res = "Completed"
    /\ ~Running(1)

\* C18: status returns NoSession when no handle is present, a session that
\* was never advanced included, and otherwise Running with the type of the
\* phase that the latest advance started.
C18_Status ==
    [][\A s \in SessIds :
          status(s) =>
              /\ ~IsSome(sess[s].current_phase) => ret'.res = "NoSession"
              /\ TimersOf(s) = {} => ret'.res = "NoSession"
              /\ IsSome(sess[s].current_phase) /\ ret'.res # "panic" =>
                    /\ ret'.res = "Running"
                    /\ ret'.kind = timer[LatestTimer(s)].phase_type
                    /\ ret'.kind = phase_at(sess[s].config, sess[s].next_index - 1)]_vars

\* status has returned Running with Long(1), the type of the second phase,
\* after two advances.
C18_Witness ==
    /\ ret.op = "status" /\ ret.res = "Running" /\ ret.kind = Long(1)
    /\ sess[1].next_index = 2
    /\ timer[1].phase_type = Work(1) /\ timer[2].phase_type = Long(1)

\* C19: in every Running snapshot elapsed + remaining is the length of the
\* current phase less the time that passed between the two clock reads of the
\* call: equal to the length when the clock did not move during the call,
\* and never above it.
C19_ElapsedPlusRemaining ==
    [][\A s \in SessIds :
          status(s) /\ ret'.res = "Running" =>
              LET duration == length(Unwrap(sess[s].current_phase).phase_type)
                                  * TicksPerMinute
              IN /\ ret'.elapsed + ret'.remaining <= duration
                 /\ ret'.elapsed + ret'.remaining >= duration - (now' - now)
                 /\ now' = now => ret'.elapsed + ret'.remaining = duration
                 /\ duration = length(ret'.kind) * TicksPerMinute]_vars

\* A Running snapshot taken after time has passed in the phase: part of the
\* length has elapsed, the rest remains.
C19_Witness ==
    /\ ret.op = "status" /\ ret.res = "Running" /\ ret.kind = Work(1)
    /\ ret.elapsed = 1 /\ ret.remaining = 1

\* C20: status is a pure read.  It leaves current_phase, next_index, the
\* members and the config of the Session as they were, sends nothing on any
\* channel, and leaves every Phase and what its next poll will return as
\* they were (the clock not having moved).
C20_StatusPure ==
    [][\A s \in SessIds :
          status(s) =>
              /\ sess'[s].current_phase = sess[s].current_phase
              /\ sess'[s].next_index = sess[s].next_index
              /\ sess'[s].members = sess[s].members
              /\ sess'[s].config = sess[s].config
              /\ sess' = sess
              /\ chan' = chan
              /\ timer' = timer /\ thr' = thr
              /\ now' = now =>
                    \A t \in TimerIds :
                        timer[t].st = "pending" => PollResult(t)' = PollResult(t)]_vars

\* status has returned Running while the Phase of its handle is pending and
\* a member has joined: handle, sender and Phase are as they were.
C20_Witness ==
    /\ ret.op = "status" /\ ret.res = "Running"
    /\ IsSome(sess[1].current_phase)
    /\ sess[1].members # {}
    /\ timer[1].st = "pending" /\ chan[1].tx = "held" /\ chan[1].nsent = 0

\* The first index from `from` on that the rule i mod 2n = 2n - 1 makes a
\* long break, n being the interval (n >= 1).
FirstLong(n, from) ==
    CHOOSE j \in from..(from + 2 * n - 1) : j % (2 * n) = 2 * n - 1

\* The durations of the phases at the indexes a .. b - 1, none of them a
\* long break: work on the even indexes, short breaks on the odd ones.
RECURSIVE SumOfLengths(_, _, _)
SumOfLengths(cfg, a, b) ==
    IF a >= b THEN 0
    ELSE (IF a % 2 = 0 THEN cfg.work ELSE cfg.short) + SumOfLengths(cfg, a + 1, b)

\* C22 as stated: for every config with interval >= 1 and every index,
\* until_long returns, and returns the sum of the durations of the phases
\* from that index up to, not including, the first long break (0 when the
\* index is itself one).
C22_Original ==
    ret.op = "until_long" /\ CallConfig.interval >= 1 =>
        /\ ret.res = "Ok"
        /\ ret.val = SumOfLengths(CallConfig, ret.arg,
                                  FirstLong(CallConfig.interval, ret.arg))

\* C22 where no addition and no product of the call overflows usize.
C22_WithoutOverflow ==
    ret.op = "until_long" /\ CallConfig.interval >= 1
      /\ ~PeriodOverflows(CallConfig)
      /\ ~UntilLongOverflows(CallConfig, ret.arg, 0) =>
        /\ ret.res = "Ok"
        /\ ret.val = SumOfLengths(CallConfig, ret.arg,
                                  FirstLong(CallConfig.interval, ret.arg))

\* until_long from index 2 for interval 3: work, short, work, then the long
\* break at index 5.
C22_Witness ==
    /\ ret.op = "until_long" /\ ret.res = "Ok"
    /\ CallConfig = [work |-> 1, short |-> 2, long |-> 3, interval |-> 3]
    /\ ret.arg = 2 /\ ret.val = 4

\* The minutes from the start of the phase at index `current` to the start
\* of the next long break, phase by phase, as a number (no width).
RECURSIVE MinutesToLong(_, _)
MinutesToLong(cfg, current) ==
    IF phase_at(cfg, current).tag = "Long"
    THEN 0
    ELSE length(phase_at(cfg, current)) + MinutesToLong(cfg, current + 1)

\* C21 as stated: in a Running status the next type is phase_at(next_index)
\* and long_at is now + remaining + until_long(next_index), which is the
\* instant at which the next long break would start if every phase from the
\* current one on ran to its deadline (the clock not moving during the call).
C21_Original ==
    [][\A s \in SessIds :
          status(s) /\ ret'.res = "Running" =>
              LET cfg == sess[s].config
                  phase == Unwrap(sess[s].current_phase)
              IN /\ ret'.next = phase_at(cfg, sess[s].next_index)
                 /\ now' = now =>
                       /\ ret'.long_at = now + remaining(phase, now)
                              + until_long(cfg, sess[s].next_index) * TicksPerMinute
                       /\ ret'.long_at = timer[LatestTimer(s)].end
                              + MinutesToLong(cfg, sess[s].next_index) * TicksPerMinute]_vars

\* C21 where no addition of until_long overflows usize: the same, and with
\* a clock that moves between the reads long_at is earlier by at most that.
C21_WithoutOverflow ==
    [][\A s \in SessIds :
          status(s) /\ ret'.res = "Running"
                    /\ ~UntilLongOverflows(sess[s].config, sess[s].next_index, 0) =>
              LET cfg == sess[s].config
                  phase == Unwrap(sess[s].current_phase)
                  start_of_long == timer[LatestTimer(s)].end
                      + MinutesToLong(cfg, sess[s].next_index) * TicksPerMinute
              IN /\ ret'.next = phase_at(cfg, sess[s].next_index)
                 /\ ret'.long_at <= start_of_long
                 /\ ret'.long_at >= start_of_long - (now' - now)
                 /\ now' = now =>
                       /\ ret'.long_at = now + remaining(phase, now)
                              + until_long(cfg, sess[s].next_index) * TicksPerMinute
                       /\ ret'.long_at = start_of_long]_vars

\* work 1, short 2, long 3, interval 2, after the first advance: a short
\* break and a work phase come before the long break, three minutes after
\* the end of the current phase.
C21_Witness ==
    /\ ret.op = "status" /\ ret.res = "Running"
    /\ sess[1].config = [work |-> 1, short |-> 2, long |-> 3, interval |-> 2]
    /\ sess[1].next_index = 1 /\ timer[1].end = TicksPerMinute
    /\ ret.kind = Work(1) /\ ret.next = Short(2)
    /\ ret.long_at = 4 * TicksPerMinute

\* C23: add_member(x) returns true exactly when x was not a member before
\* the call, and x is a member after it; remove_member(x) returns true
\* exactly when x was a member, and x is not a member after it; neither
\* changes the membership of anyone else.
C23_Members ==
    [][\A s \in SessIds : \A u \in UserIds :
          /\ add_member(s, u) =>
                /\ ret'.res = "true" <=> u \notin sess[s].members
                /\ ret'.res = "false" <=> u \in sess[s].members
                /\ u \in sess'[s].members
                /\ sess'[s].members \ {u} = sess[s].members \ {u}
          /\ remove_member(s, u) =>
                /\ ret'.res = "true" <=> u \in sess[s].members
                /\ ret'.res = "false" <=> u \notin sess[s].members
                /\ u \notin sess'[s].members
                /\ sess'[s].members \ {u} = sess[s].members \ {u}]_vars

\* A repeated add_member has returned false while others are members too.
C23_Witness ==
    /\ ret.op = "add_member" /\ ret.res = "false"
    /\ sess[1].members = {"u1", "u2"}

\* C24: the member set is empty when the Session is created and only
\* add_member and remove_member change it: every step that changes it is one
\* of the two, and advance, skip, stop and status leave it as it was.
C24_MembersFrame ==
    /\ \A s \in SessIds : sess[s].members = {}
    /\ [][\A s \in SessIds :
             /\ sess'[s].members # sess[s].members =>
                   \E u \in UserIds : add_member(s, u) \/ remove_member(s, u)
             /\ advance(s) \/ skip(s) \/ stop(s) \/ status(s) =>
                   sess'[s].members = sess[s].members]_vars

\* A Session with two members has been advanced twice, skipped and asked
\* for its status: the two are still its members.
C24_Witness ==
    /\ sess[1].members = {"u1", "u3"}
    /\ sess[1].next_index = 2 /\ chan[2].sent = "Skip"
    /\ ret.op = "status" /\ ret.res = "NoSession"

\* The result with which the Phase that run loop r awaited has resolved.
ResultOf(r) == timer[task[r].phase].outcomes[1].res

\* Run loop r has left its loop.
LoopEnded(r) == task[r].pc \in {"finish", "done"}

\* C25: when the Phase a run loop awaits resolves Failed the loop ends: the
\* task reports the failure with the id of its Session, calls advance no
\* more (its Session gets no further Phase, the failure is not retried),
\* and removes the entry of its channel from the registry, which then does
\* not hold its Session.
C25_FailedEndsLoop ==
    [][\A r \in Runs :
          /\ run_resolved(r) /\ ResultOf(r) = "Failed" =>
                /\ task'[r].pc = "finish"
                /\ task'[r].said = [msg |-> "Session {id} failed!", id |-> SessionOf(r)]
          /\ LoopEnded(r) /\ task[r].said.msg = "Session {id} failed!" =>
                /\ LoopEnded(r)'
                /\ task'[r].said = task[r].said
                /\ TimersOf(SessionOf(r))' = TimersOf(SessionOf(r))
                /\ ~(run_first_advance(r) \/ run_next(r) \/ run_poll(r))
          /\ run_finish(r) /\ task[r].said.msg = "Session {id} failed!" =>
                /\ sessions'[TheChannel] = None
                /\ ~Live(SessionOf(r))']_vars

\* The first run loop's Phase resolved Failed; the task said so with its
\* Session's id, removed the entry of the channel and ended with one Phase
\* started.
C25_Witness ==
    /\ task["r1"].pc = "done"
    /\ task["r1"].said = [msg |-> "Session {id} failed!", id |-> 1]
    /\ Resolved(1) /\ Outcome(1).res = "Failed" /\ timer[1].session = 1
    /\ TimersOf(1) = {1}
    /\ sessions[TheChannel] = None

\* What C26 says of a step of run loop r, the last part left to `next`:
\* Stopped ends the loop, a loop that ended calls advance no more (its
\* Session gets a further Phase only from the loop of another start) and
\* removes the entry of its channel, a start that finds no entry is
\* accepted, and Completed and Skipped take the loop to its next advance.
StopEndsLoop(r) ==
    /\ run_resolved(r) /\ ResultOf(r) = "Stopped" =>
          /\ task'[r].pc = "finish"
          /\ task'[r].said.msg = "Session stopped!"
    /\ LoopEnded(r) =>
          /\ LoopEnded(r)'
          /\ ~(run_first_advance(r) \/ run_next(r) \/ run_poll(r))
          /\ \/ TimersOf(SessionOf(r))' = TimersOf(SessionOf(r))
             \/ \E q \in Runs \ {r} : run_next(q)
    /\ run_finish(r) => sessions'[TheChannel] = None
    /\ \A q \in Runs :
          start_check(q) /\ sessions[TheChannel] = None => task'[q].pc = "reply"
    /\ run_resolved(r) /\ ResultOf(r) \in {"Completed", "Skipped"} =>
          task'[r].pc = "next"

\* The step of run loop r has started a Phase, which the loop now awaits.
StartsPhase(r) ==
    /\ task'[r].pc = "await"
    /\ timer[task'[r].phase].st = "none"
    /\ timer'[task'[r].phase].st = "pending"

\* C26 as stated: once a Phase resolves Stopped the run loop calls advance
\* no more and removes the entry of the channel, after which a start in the
\* channel is accepted, whereas after Completed or Skipped the run loop
\* always starts the next phase.
C26_Original ==
    [][\A r \in Runs :
          /\ StopEndsLoop(r)
          /\ run_next(r) => StartsPhase(r)]_vars

\* C26 without its last part where the task panics: after Completed or
\* Skipped the run loop goes on to advance, and starts the next phase unless
\* the lookup of the Session or advance itself panics.
C26_UnlessPanic ==
    [][\A r \in Runs :
          /\ StopEndsLoop(r)
          /\ run_next(r) => StartsPhase(r) \/ task'[r].pc = "panicked"]_vars

\* The first start's session was stopped and its entry removed; the second
\* start was accepted and its run loop awaits the first phase of its own
\* Session.
C26_Witness ==
    /\ task["r1"].pc = "done" /\ task["r1"].said.msg = "Session stopped!"
    /\ Resolved(1) /\ Outcome(1).res = "Stopped" /\ timer[1].session = 1
    /\ task["r2"].pc = "await" /\ timer[2].session = 2
    /\ sessions[TheChannel] = Some(2)

\* C27: the run loop never holds the lock of the registry while it awaits
\* a Phase: each advance of the loop is followed by the drop of the guard,
\* and while the loop awaits, the lock is free for the skip, stop, status,
\* join and leave commands whenever no command holds it.
C27_NoLockWhileAwaiting ==
    /\ [](\A r \in Runs :
            task[r].pc = "await" =>
                /\ lock # r
                /\ (\A k \in Cmds : task[k].pc = "idle") => lock = "none")
    /\ [][\A r \in Runs :
             run_first_advance(r) \/ run_next(r) => lock' = "none"]_vars

\* While the run loop awaits a pending Phase a status command has run, and
\* the lock is free.
C27_Witness ==
    /\ task["r1"].pc = "await" /\ timer[task["r1"].phase].st = "pending"
    /\ ret.op = "status" /\ ret.res = "Running"
    /\ lock = "none"

\* C28 as stated: no task holds the lock of the registry while it awaits:
\* not the start command or the run loop (sending the reply, awaiting the
\* Phase, waiting for the lock), and not the skip and stop commands while
\* they send their reply.
C28_Original ==
    /\ \A r \in Runs : lock = r => task[r].pc = "inserted"
    /\ \A k \in Cmds : task[k].pc = "reply" => lock # k

\* C28 for the start command and the run loop alone: they hold the lock
\* only between the insert and the drop that follows the first advance, and
\* within the single steps of the loop.
C28_StartAndRunLoop ==
    \A r \in Runs : lock = r => task[r].pc = "inserted"

\* The skip command holds the lock while it sends its reply, and the run
\* loop, whose Phase has resolved Skipped, waits for the lock to advance.
C28_Witness ==
    /\ task["k1"].pc = "reply" /\ lock = "k1"
    /\ task["r1"].pc = "next"
    /\ ret.op = "none" /\ chan[1].sent = "Skip"

\* Run loop r drives phases: it has inserted its Session and not yet left
\* its loop.
Drives(r) == task[r].pc \in {"inserted", "await", "next"}

\* C29 as stated: a start that finds a Session registered under the channel
\* is refused, and for every interleaving of starts in the channel no
\* registered Session is overwritten by another and at most one run loop
\* drives phases for the channel.
C29_Original ==
    /\ [](Cardinality({ r \in Runs : Drives(r) }) <= 1)
    /\ [][\A r \in Runs :
             /\ start_check(r) /\ IsSome(sessions[TheChannel]) =>
                   task'[r].pc = "refused"
             /\ run_insert(r) => sessions[TheChannel] = None]_vars

\* C29, the part that holds: a start whose check finds a Session registered
\* is refused, builds no Session and starts no run loop.
C29_RefusedWhenRegistered ==
    [][\A r \in Runs :
          /\ start_check(r) /\ IsSome(sessions[TheChannel]) =>
                task'[r].pc = "refused"
          /\ task[r].pc = "refused" =>
                task'[r].pc = "refused" /\ sess'[SessionOf(r)] = sess[SessionOf(r)]]_vars

\* A start was refused while the Session of the other was registered and
\* its run loop awaited a Phase.
C29_Witness ==
    /\ task["r2"].pc = "refused"
    /\ task["r1"].pc = "await" /\ sessions[TheChannel] = Some(1)
    /\ sess[2] = NoSess

\* The waker threads spawned for Phase t that have not finished, and those
\* of them that have not yet sent their signal.
LiveThreads(t) == { k \in ThreadIds : thr[k].timer = t /\ thr[k].pc \in {"sleep", "wake"} }
SleepingThreads(t) == { k \in ThreadIds : thr[k].timer = t /\ thr[k].pc = "sleep" }

\* A poll of Phase t has spawned a waker thread.
Spawned(t) ==
    \E k \in ThreadIds :
        thr[k].pc # "sleep" /\ thr'[k].pc = "sleep" /\ thr'[k].timer = t

\* C30 as stated: at any time at most one waker thread that has not finished
\* is live per pending Phase, and a poll spawns one only when the Phase has
\* none or the previous one has finished.
C30_Original ==
    /\ [](\A t \in TimerIds :
            timer[t].st = "pending" => Cardinality(LiveThreads(t)) <= 1)
    /\ [][\A t \in TimerIds :
             Spawned(t) => LiveThreads(t) = {}]_vars

\* C30 for the threads that have not yet sent their signal: per pending
\* Phase there is at most one, and a poll spawns a waker thread only when
\* the Phase has none or the previous one has sent its signal; the previous
\* one may still be about to call wake_by_ref.
C30_OneSleeping ==
    /\ [](\A t \in TimerIds :
            timer[t].st = "pending" => Cardinality(SleepingThreads(t)) <= 1)
    /\ [][\A t \in TimerIds :
             Spawned(t) =>
                 /\ SleepingThreads(t) = {}
                 /\ IsSome(timer[t].waker) => WakerFinished(Unwrap(timer[t].waker))
                 /\ Cardinality(SleepingThreads(t)') = 1]_vars

\* A pending Phase with two waker threads alive: the one that has signalled
\* and is about to wake the task, and the one a poll spawned meanwhile.
C30_Witness ==
    /\ timer[1].st = "pending"
    /\ \E j \in ThreadIds : \E k \in ThreadIds :
          /\ thr[j].timer = 1 /\ thr[j].pc = "wake"
          /\ thr[k].timer = 1 /\ thr[k].pc = "sleep"
          /\ timer[1].waker = Some(k)

\* A step that polls Phase t.
Polls(t) == \E w \in Wakers : WokenPoll(t, w) \/ SpuriousPoll(t, w)

\* The outcome a waiting signal gives: Skip gives Skipped, Stop Stopped.
SignalOutcome(msg) == IF msg = "Skip" THEN "Skipped" ELSE "Stopped"

\* C31: a skip or stop resolves no Phase when it sends its signal; a
\* pending Phase with a signal waiting in its channel stays pending, with
\* no outcome, through every step that is not a poll of it, and its next
\* poll resolves it Skipped or Stopped respectively, also when its deadline
\* has passed.
C31_Cooperative ==
    [][\A t \in TimerIds :
          /\ (\E s \in ApiSessions : skip(s) \/ stop(s)) => timer'[t] = timer[t]
          /\ timer[t].st = "pending" /\ chan[t].val \in {"Skip", "Stop"} =>
                IF Polls(t)
                THEN /\ timer'[t].st = "ready"
                     /\ timer'[t].outcomes = OutcomeOf(t, SignalOutcome(chan[t].val))
                ELSE /\ timer'[t].st = "pending"
                     /\ timer'[t].outcomes = << >>]_vars

\* A Phase that was polled and pending, was sent Stop once its deadline had
\* passed, and was resolved Stopped by its next poll.
C31_Witness ==
    \E t \in TimerIds :
        /\ Resolved(t) /\ Outcome(t).res = "Stopped" /\ ~Outcome(t).first
        /\ chan[t].sent = "Stop" /\ ~chan[t].early
        /\ timer[t].end <= now

\* The configuration keeps the invariant: no zero duration, no zero
\* interval.
ValidConfig(cfg) == cfg.work > 0 /\ cfg.short > 0 /\ cfg.long > 0 /\ cfg.interval > 0

\* C32 as stated: a configuration with a zero duration or a zero interval
\* is rejected when the Session is constructed, so no Session has one, and
\* advance and status are never evaluated on a config with interval = 0.
C32_Original ==
    /\ \A s \in SessIds : sess[s].st # "none" => ValidConfig(sess[s].config)
    /\ ret.op \in {"advance", "status"} => sess[ret.s].config.interval # 0

\* What holds instead: start builds the Session with the configuration as
\* given, and interval = 0 is found at use only: the advance of the run
\* loop panics exactly when interval = 0 and the index is odd, so the first
\* advance succeeds and the second ends the task.
C32_RejectedAtUse ==
    [][\A r \in OneRun :
          /\ start_build(r) /\ task'[r].pc = "built" =>
                \E cfg \in Configs : sess'[SessionOf(r)] = from_config(cfg)
          /\ (run_first_advance(r) \/ run_next(r)) /\ IsSome(get_mut(TheChannel)) =>
                LET sn == sess[Unwrap(get_mut(TheChannel))]
                IN /\ ret'.res = "panic" <=>
                          sn.config.interval = 0 /\ sn.next_index % 2 = 1
                   /\ ret'.res = "panic" <=> task'[r].pc = "panicked"]_vars

\* A Session started with interval = 0: its work phase was skipped or
\* completed and the run loop's second advance panicked; the entry of the
\* channel stays.
C32_Witness ==
    /\ task["r1"].pc = "panicked"
    /\ sess[1].st = "live" /\ sess[1].config.interval = 0 /\ sess[1].next_index = 1
    /\ ret.op = "advance" /\ ret.res = "panic"
    /\ sessions[TheChannel] = Some(1)

\* The Phase was dropped: consumed by the await that resolved it, or
\* abandoned before it resolved.
Disposed(t) == timer[t].st \in {"consumed", "dropped"}

\* C33: every waker thread sleeps no longer than WakeTicks and then goes on
\* to its end, whether its Phase is pending, resolved or dropped (a send
\* that fails is tolerated); a disposed Phase changes no more, and no step
\* of a waker thread resolves a Phase or gives it an outcome.
C33_ThreadsTerminate ==
    /\ [](\A k \in ThreadIds : thr[k].pc = "sleep" => thr[k].when <= now + WakeTicks)
    /\ \A k \in ThreadIds :
          (thr[k].pc \in {"sleep", "wake"} /\ thr[k].when <= MaxTime) ~> thr[k].pc = "done"
    /\ [][\A t \in TimerIds : Disposed(t) => timer'[t] = timer[t]]_vars
    /\ [][\A k \in ThreadIds :
             ThreadSignal(k) \/ ThreadWake(k) =>
                 \A t \in TimerIds : /\ timer'[t].st = timer[t].st
                                      /\ timer'[t].outcomes = timer[t].outcomes]_vars

\* A Phase that was abandoned before it resolved, whose waker thread has
\* slept, has gone past its send and ends with its wake.
C33_Witness ==
    \E t \in TimerIds : \E k \in ThreadIds :
        /\ timer[t].st = "dropped" /\ timer[t].outcomes = << >>
        /\ thr[k].timer = t /\ thr[k].pc = "wake"

\* A skip or stop command given now in the channel of task k would wait for
\* the lock, which a task of another channel holds.
Delayed(k) ==
    /\ task[k].pc = "idle"
    /\ lock # "none" /\ ChannelOf(lock) # ChannelOf(k)

\* The Session registered under channel c and its Phases.
SessionIn(c) == IF IsSome(sessions[c]) THEN sess[Unwrap(sessions[c])] ELSE NoSess
PhasesIn(c) ==
    [t \in TimerIds |->
        IF IsSome(sessions[c]) /\ timer[t].session = Unwrap(sessions[c])
        THEN << timer[t], chan[t] >> ELSE << >>]

\* C34 as stated: a command on the Session of one channel is never delayed
\* by a command or a run loop step on the Session of another channel.
C34_Original == \A k \in TwoChannelCmds : ~Delayed(k)

\* What holds instead: the tasks of one channel contend with those of the
\* other for the lock of the registry only.  A command waits for a task of
\* the other channel only while that task is a run loop between its insert
\* and its first advance or a skip or stop command sending its reply, and
\* no step of a task of one channel changes the entry, the Session or the
\* Phases of the other channel.
C34_OnlyTheRegistryLock ==
    /\ [](\A k \in TwoChannelCmds :
            Delayed(k) => task[lock].pc \in {"inserted", "reply"})
    /\ [][\A j \in TwoChannelRuns \cup TwoChannelCmds :
             task'[j] # task[j] =>
                 \A c \in Channels \ {ChannelOf(j)} :
                     /\ sessions'[c] = sessions[c]
                     /\ SessionIn(c)' = SessionIn(c)
                     /\ PhasesIn(c)' = PhasesIn(c)]_vars

\* Both channels have a Session with a Phase pending; the skip command of
\* the first channel holds the lock while it sends its reply, and a command
\* in the second channel would wait.
C34_Witness ==
    /\ sessions[TheChannel] = Some(1) /\ sessions[OtherChannel] = Some(2)
    /\ task["r1"].pc = "await" /\ task["r3"].pc = "await"
    /\ lock = "k1" /\ task["k1"].pc = "reply"
    /\ Delayed("k2")

\* The run task of main is driving the Session: it awaits a Phase or is
\* about to call advance again; and no Stop has been sent.
Driving == task[MainRun].pc \in {"await", "next"}
NotStopped == \A t \in TimerIds : chan[t].sent # "Stop"

\* C35 as stated: while the run loop drives a Session that was not stopped,
\* skip and stop called by the other task return Ok at whatever instant.
C35_Original ==
    [][(mess_skip(MessWith) \/ mess_stop(MessWith)) /\ Driving /\ NotStopped =>
           ret'.res = "Ok"]_vars

\* What holds instead: the skip of mess_with returns Ok at every instant of
\* the loop; its stop returns Ok exactly when the Session has a handle whose
\* Phase still exists, and so returns NotActive between the end of a Phase
\* and the next advance, and after the skip until the next advance.
C35_StopNeedsReceiver ==
    [][/\ mess_skip(MessWith) /\ Driving => ret'.res = "Ok"
       /\ mess_stop(MessWith) /\ Driving =>
             /\ ret'.res = "Ok" <=>
                    /\ IsSome(sess[MainSession].current_phase)
                    /\ RxAlive(Unwrap(sess[MainSession].current_phase).send)
             /\ task[MainRun].pc = "next" => ret'.res = NotActive
             /\ ret'.res = NotActive <=> task'[MessWith].pc = "panicked"]_vars

\* The first Phase was skipped, the second completed on its own, and the
\* stop that came before the loop's next advance returned NotActive: the
\* expect of mess_with panicked and the loop goes on.
C35_Witness ==
    /\ Resolved(1) /\ Outcome(1).res = "Skipped"
    /\ Resolved(2) /\ Outcome(2).res = "Completed" /\ timer[2].st = "consumed"
    /\ task[MainRun].pc = "next"
    /\ ret.op = "stop" /\ ret.res = NotActive
    /\ task[MessWith].pc = "panicked"

\* The start command of task q has inserted its Session.
HasInserted(q) == task[q].pc \notin {"idle", "refused", "reply", "built"}

\* C36 as stated: whenever a run loop takes the lock again to call advance,
\* the Session it inserted is still registered under its channel.
C36_Original ==
    [][\A r \in Runs :
          run_next(r) => get_mut(TheChannel) = Some(SessionOf(r))]_vars

\* What holds instead: the loop finds its own Session unless another start
\* in the channel has inserted one meanwhile; then it finds the other
\* start's Session and advances that, or finds none, where the expect of
\* the lookup panics.
C36_UnlessOtherStart ==
    [][\A r \in Runs :
          run_next(r) =>
              /\ \/ get_mut(TheChannel) = Some(SessionOf(r))
                 \/ \E q \in Runs \ {r} : HasInserted(q)
              /\ get_mut(TheChannel) = None <=>
                     task'[r].pc = "panicked" /\ ret'.res # "panic"
              /\ IsSome(get_mut(TheChannel)) =>
                     ret'.op = "advance" /\ ret'.s = Unwrap(get_mut(TheChannel))]_vars

\* The second start replaced the first Session while the first loop was
\* between two phases, and was stopped: its loop removed the entry, and the
\* lookup of the first loop found none.
C36_Witness ==
    /\ task["r1"].pc = "panicked" /\ sess[1].st = "dropped" /\ sess[1].next_index = 1
    /\ task["r2"].pc = "done" /\ task["r2"].said.msg = "Session stopped!"
    /\ sessions[TheChannel] = None
    /\ ret.op = "none"

\* A stop has returned Ok for Phase t: its Stop was sent to a receiver that
\* existed.
StopAccepted(t) == chan[t].sent = "Stop"

\* C37 as stated: if stop returns Ok, the Phase of the latest advance
\* resolves Stopped, never Completed, Skipped or Failed, and the run loop
\* ends without starting another phase.
C37_Original ==
    /\ [](\A t \in TimerIds :
            StopAccepted(t) /\ Resolved(t) => Outcome(t).res = "Stopped")
    /\ [][\A r \in OneRun :
             run_next(r) => ~StopAccepted(task[r].phase)]_vars

\* What holds instead: a stop returns Ok when the Phase of the latest
\* advance still exists.  If that Phase is still pending, the Stop waits in
\* its channel until its poll, which resolves it Stopped, and the run loop
\* ends with no further phase; if a poll has already resolved it, its
\* outcome stays and the Stop is never read.
C37_UnlessResolved ==
    [][/\ \A k \in Cmds :
             cmd_stop(k) /\ ret'.res = "Ok" =>
                 LET t == Unwrap(sess[ret'.s].current_phase).send
                 IN /\ timer[t].st \in {"pending", "ready"}
                    /\ timer'[t] = timer[t]
                    /\ chan'[t].val = "Stop"
       /\ \A t \in TimerIds :
             timer[t].st = "pending" /\ chan[t].val = "Stop" =>
                 \/ timer'[t].st = "pending" /\ chan'[t].val = "Stop"
                 \/ timer'[t].outcomes = OutcomeOf(t, "Stopped")
       /\ \A t \in TimerIds :
             timer[t].st = "ready" => timer'[t].outcomes = timer[t].outcomes
       /\ \A r \in OneRun :
             /\ run_resolved(r) /\ ResultOf(r) = "Stopped" => task'[r].pc = "finish"
             /\ LoopEnded(r) =>
                   /\ LoopEnded(r)'
                   /\ TimersOf(SessionOf(r))' = TimersOf(SessionOf(r))]_vars

\* A stop that returned Ok and was lost: the poll had resolved the first
\* Phase Completed before the Stop was sent, and the run loop has started
\* the next phase.
C37_Witness ==
    /\ StopAccepted(1) /\ chan[1].val = "Stop"
    /\ Resolved(1) /\ Outcome(1).res = "Completed"
    /\ task["r1"].pc = "await" /\ task["r1"].phase = 2
    /\ timer[2].st = "pending" /\ timer[2].session = 1

\* C38: with one start command, whose run loop calls advance only after the
\* Phase it awaited has resolved, and skip, stop, status, join and leave
\* commands besides, no Phase of the Session resolves Failed: every sender
\* is held by the Session, or has sent, until its Phase has resolved.
C38_NeverFailed ==
    \A t \in TimerIds :
        /\ Resolved(t) => Outcome(t).res # "Failed"
        /\ timer[t].st = "pending" => try_recv(t) # "Closed"

\* The run loop has driven two phases, the first skipped and the second
\* stopped, and has removed the Session.
C38_Witness ==
    /\ Resolved(1) /\ Outcome(1).res = "Skipped"
    /\ Resolved(2) /\ Outcome(2).res = "Stopped"
    /\ task["r1"].pc = "done" /\ sess[1].st = "dropped"

\* The length of the phase of handle h in ticks.
DurationOf(h) == length(h.phase_type) * TicksPerMinute

\* C39 as stated: every Running snapshot has 0 <= elapsed <= the length of
\* the current phase, and remaining is not negative.
C39_Original ==
    ret.op = "status" /\ ret.res = "Running" =>
        /\ 0 <= ret.elapsed
        /\ ret.elapsed <= DurationOf(Unwrap(sess[ret.s].current_phase))
        /\ 0 <= ret.remaining

\* What holds instead: elapsed is never negative, and a snapshot taken
\* wholly before the deadline of the handle's phase has elapsed <= length
\* and remaining >= 0; one taken after the deadline, while the run loop has
\* not advanced yet, has elapsed > length and remaining < 0.
C39_UntilDeadline ==
    [][\A k \in Cmds :
          cmd_status(k) /\ ret'.res = "Running" =>
              LET h == Unwrap(sess[ret'.s].current_phase)
                  end == EndOf(h.started, h.phase_type)
              IN /\ 0 <= ret'.elapsed
                 /\ now' <= end =>
                       ret'.elapsed <= DurationOf(h) /\ 0 <= ret'.remaining
                 /\ now > end =>
                       ret'.elapsed > DurationOf(h) /\ ret'.remaining < 0]_vars

\* A status taken after the deadline of the phase the run loop still
\* awaits: remaining is negative.
C39_Witness ==
    /\ ret.op = "status" /\ ret.res = "Running" /\ ret.remaining < 0
    /\ task["r1"].pc = "await" /\ timer[task["r1"].phase].st = "pending"
    /\ timer[task["r1"].phase].end < now

====
